---- MODULE Spec2Model ----
(***************************************************************************)
(* Model of the unit-file codec of packages/conf/src/ini.ts: readValue,    *)
(* INI.fromString and INI.toString.  Text is a sequence of one-character   *)
(* strings, so that trimming, splitting, continuation removal and number   *)
(* conversion are computed character by character as the code does.        *)
(***************************************************************************)
EXTENDS Integers, Sequences, FiniteSets, TLC

VARIABLES data, pc, rawData, lines, idx, currentSection, iniData,
          line, key, value, parsedValue, error, warnings, text, reparsed, unit,
          files, ctl, lastCall

vars == <<data, pc, rawData, lines, idx, currentSection, iniData,
          line, key, value, parsedValue, error, warnings, text, reparsed, unit,
          files, ctl, lastCall>>

(***************************************************************************)
(* Bounds of the explored inputs.                                          *)
(***************************************************************************)
MaxLines == 4
MaxTokLen == 3

(***************************************************************************)
(* String primitives of the host language, as the code uses them.          *)
(***************************************************************************)
WhiteSpace == {" ", "\t", "\n", "\r"}

RECURSIVE TrimStart(_)
TrimStart(s) ==
  IF s = <<>> THEN s
  ELSE IF Head(s) \in WhiteSpace THEN TrimStart(Tail(s)) ELSE s

RECURSIVE TrimEnd(_)
TrimEnd(s) ==
  IF s = <<>> THEN s
  ELSE IF s[Len(s)] \in WhiteSpace THEN TrimEnd(SubSeq(s, 1, Len(s) - 1)) ELSE s

Trim(s) == TrimEnd(TrimStart(s))

StartsWith(s, p) == Len(s) >= Len(p) /\ SubSeq(s, 1, Len(p)) = p

EndsWith(s, p) == Len(s) >= Len(p) /\ SubSeq(s, Len(s) - Len(p) + 1, Len(s)) = p

\* String.prototype.replaceAll(/p/g, ""): one left-to-right pass, the
\* matches do not overlap and the result is not scanned again.  The pass
\* goes from match to match: what stands before the next match is kept.
MatchAt(s, p, i) == i + Len(p) - 1 <= Len(s) /\ SubSeq(s, i, i + Len(p) - 1) = p

RECURSIVE ReplaceFrom(_, _, _)
ReplaceFrom(s, p, from) ==
  LET starts == {i \in from..Len(s) : MatchAt(s, p, i)}
      first == CHOOSE i \in starts : \A j \in starts : i <= j
  IN  IF starts = {} THEN SubSeq(s, from, Len(s))
      ELSE SubSeq(s, from, first - 1) \o ReplaceFrom(s, p, first + Len(p))

ReplaceAllEmpty(s, p) == ReplaceFrom(s, p, 1)

\* String.prototype.split(sep) for a one-character separator: always one
\* more piece than there are separators ("" splits into one empty piece).
\* The pieces are cut from separator to separator.
RECURSIVE SplitFrom(_, _, _)
SplitFrom(s, sep, from) ==
  LET seps == {i \in from..Len(s) : s[i] = sep}
      first == CHOOSE i \in seps : \A j \in seps : i <= j
  IN  IF seps = {} THEN <<SubSeq(s, from, Len(s))>>
      ELSE <<SubSeq(s, from, first - 1)>> \o SplitFrom(s, sep, first + 1)

Split(s, sep) == SplitFrom(s, sep, 1)

\* String.prototype.indexOf(c), 1-based; 0 stands for the code's -1.
RECURSIVE IndexFrom(_, _, _)
IndexFrom(s, c, i) ==
  IF i > Len(s) THEN 0
  ELSE IF s[i] = c THEN i ELSE IndexFrom(s, c, i + 1)

IndexOf(s, c) == IndexFrom(s, c, 1)

RECURSIVE Join(_, _)
Join(ss, sep) ==
  IF ss = <<>> THEN <<>>
  ELSE IF Len(ss) = 1 THEN ss[1]
  ELSE ss[1] \o sep \o Join(Tail(ss), sep)

RECURSIVE Concat(_)
Concat(ss) == IF ss = <<>> THEN <<>> ELSE Head(ss) \o Concat(Tail(ss))

(***************************************************************************)
(* Number(string) and String(number) of the host language.  A finite       *)
(* number is kept as its shortest decimal form: digits ds (no leading or   *)
(* trailing zero, empty for zero) and the position n of the decimal point, *)
(* the value being 0.ds * 10^n.  Short numerals are exact in a double, so  *)
(* this form is the one the number prints with.                            *)
(***************************************************************************)
DecChars == <<"0", "1", "2", "3", "4", "5", "6", "7", "8", "9">>

HexLower == <<"0", "1", "2", "3", "4", "5", "6", "7", "8", "9",
              "a", "b", "c", "d", "e", "f">>

HexUpper == <<"0", "1", "2", "3", "4", "5", "6", "7", "8", "9",
              "A", "B", "C", "D", "E", "F">>

Range(f) == {f[i] : i \in DOMAIN f}

DigitValue(c) ==
  IF c \in Range(HexLower) THEN IndexOf(HexLower, c) - 1 ELSE IndexOf(HexUpper, c) - 1

IsDigitOfRadix(c, radix) ==
  /\ c \in Range(HexLower) \cup Range(HexUpper)
  /\ DigitValue(c) < radix

AllDigits(s, radix) == \A i \in DOMAIN s : IsDigitOfRadix(s[i], radix)

RECURSIVE RadixValue(_, _, _)
RadixValue(s, radix, acc) ==
  IF s = <<>> THEN acc ELSE RadixValue(Tail(s), radix, acc * radix + DigitValue(Head(s)))

RECURSIVE IntToDigits(_)
IntToDigits(v) ==
  IF v < 10 THEN <<DecChars[v + 1]>> ELSE Append(IntToDigits(v \div 10), DecChars[(v % 10) + 1])

RECURSIVE StripLeadingZeros(_)
StripLeadingZeros(ds) ==
  IF ds # <<>> /\ Head(ds) = "0" THEN StripLeadingZeros(Tail(ds)) ELSE ds

RECURSIVE StripTrailingZeros(_)
StripTrailingZeros(ds) ==
  IF ds # <<>> /\ ds[Len(ds)] = "0" THEN StripTrailingZeros(SubSeq(ds, 1, Len(ds) - 1)) ELSE ds

NaN == [kind |-> "NaN", neg |-> FALSE, ds |-> <<>>, n |-> 0]

Infinite(neg) == [kind |-> "Infinity", neg |-> neg, ds |-> <<>>, n |-> 0]

Finite(neg, ds, n) == [kind |-> "finite", neg |-> neg, ds |-> ds, n |-> n]

\* Largest double: 1.7976931348623157e308.
MaxDoubleDigits == <<"1", "7", "9", "7", "6", "9", "3", "1", "3", "4", "8", "6", "2", "3", "1", "5", "7">>
MaxDoublePoint == 309
MinDoublePoint == -323

\* 0.a <= 0.b for digit sequences read as decimal fractions.
RECURSIVE FractionLeq(_, _)
FractionLeq(a, b) ==
  IF a = <<>> THEN TRUE
  ELSE IF b = <<>> THEN FALSE
  ELSE IF DigitValue(Head(a)) < DigitValue(Head(b)) THEN TRUE
  ELSE IF DigitValue(Head(a)) > DigitValue(Head(b)) THEN FALSE
  ELSE FractionLeq(Tail(a), Tail(b))

\* The double nearest to 0.digits * 10^point (digits may carry zeros at
\* both ends): rounds to zero below the double range, to infinity above it.
MakeNumber(neg, digits, point) ==
  LET nz == StripLeadingZeros(digits)
      ds == StripTrailingZeros(nz)
      n  == point - (Len(digits) - Len(nz))
  IN  IF ds = <<>> THEN Finite(neg, <<>>, 0)
      ELSE IF n < MinDoublePoint THEN Finite(neg, <<>>, 0)
      ELSE IF n > MaxDoublePoint \/ (n = MaxDoublePoint /\ ~FractionLeq(ds, MaxDoubleDigits))
        THEN Infinite(neg)
      ELSE Finite(neg, ds, n)

\* StrUnsignedDecimalLiteral: digits [. digits] [e [sign] digits], with at
\* least one digit before the exponent, or the word Infinity.
UnsignedDecimal(neg, s) ==
  LET ePos  == IF IndexOf(s, "e") # 0 THEN IndexOf(s, "e") ELSE IndexOf(s, "E")
      mant  == IF ePos = 0 THEN s ELSE SubSeq(s, 1, ePos - 1)
      expS  == IF ePos = 0 THEN <<>> ELSE SubSeq(s, ePos + 1, Len(s))
      expNeg == expS # <<>> /\ Head(expS) = "-"
      expD  == IF expS # <<>> /\ Head(expS) \in {"+", "-"} THEN Tail(expS) ELSE expS
      dot   == IndexOf(mant, ".")
      ip    == IF dot = 0 THEN mant ELSE SubSeq(mant, 1, dot - 1)
      fp    == IF dot = 0 THEN <<>> ELSE SubSeq(mant, dot + 1, Len(mant))
      expV  == RadixValue(expD, 10, 0)
  IN  IF s = <<"I", "n", "f", "i", "n", "i", "t", "y">> THEN Infinite(neg)
      ELSE IF /\ AllDigits(ip, 10) /\ AllDigits(fp, 10) /\ Len(ip) + Len(fp) >= 1
              /\ (ePos = 0 \/ (expD # <<>> /\ AllDigits(expD, 10)))
        THEN MakeNumber(neg, ip \o fp, Len(ip) + (IF expNeg THEN 0 - expV ELSE expV))
      ELSE NaN

RadixLiteral(s, radix) ==
  IF Len(s) > 2 /\ AllDigits(SubSeq(s, 3, Len(s)), radix)
    THEN LET digits == IntToDigits(RadixValue(SubSeq(s, 3, Len(s)), radix, 0))
         IN  MakeNumber(FALSE, digits, Len(digits))
  ELSE NaN

\* Number(s) applied to a string (StringToNumber).
Number(s) ==
  LET t == Trim(s) IN
  IF t = <<>> THEN Finite(FALSE, <<>>, 0)
  ELSE IF Len(t) >= 2 /\ t[1] = "0" /\ t[2] \in {"x", "X"} THEN RadixLiteral(t, 16)
  ELSE IF Len(t) >= 2 /\ t[1] = "0" /\ t[2] \in {"o", "O"} THEN RadixLiteral(t, 8)
  ELSE IF Len(t) >= 2 /\ t[1] = "0" /\ t[2] \in {"b", "B"} THEN RadixLiteral(t, 2)
  ELSE IF t[1] = "-" THEN UnsignedDecimal(TRUE, Tail(t))
  ELSE IF t[1] = "+" THEN UnsignedDecimal(FALSE, Tail(t))
  ELSE UnsignedDecimal(FALSE, t)

isFinite(x) == x.kind = "finite"

Zeros(k) == [i \in 1..k |-> "0"]

\* Number::toString(x), radix 10, as a template literal applies it.
NumberToString(x) ==
  IF x.kind = "NaN" THEN <<"N", "a", "N">>
  ELSE IF x.kind = "Infinity"
    THEN (IF x.neg THEN <<"-">> ELSE <<>>) \o <<"I", "n", "f", "i", "n", "i", "t", "y">>
  ELSE IF x.ds = <<>> THEN <<"0">>
  ELSE
    LET k == Len(x.ds)
        n == x.n
        sign == IF x.neg THEN <<"-">> ELSE <<>>
        ex == n - 1
        exS == (IF ex < 0 THEN <<"-">> ELSE <<"+">>) \o IntToDigits(IF ex < 0 THEN 0 - ex ELSE ex)
    IN  sign \o
        (IF k <= n /\ n <= 21 THEN x.ds \o Zeros(n - k)
         ELSE IF 0 < n /\ n <= 21 THEN SubSeq(x.ds, 1, n) \o <<".">> \o SubSeq(x.ds, n + 1, k)
         ELSE IF -6 < n /\ n <= 0 THEN <<"0", ".">> \o Zeros(0 - n) \o x.ds
         ELSE IF k = 1 THEN x.ds \o <<"e">> \o exS
         ELSE <<x.ds[1], ".">> \o SubSeq(x.ds, 2, k) \o <<"e">> \o exS)

(***************************************************************************)
(* Values and objects.  A value carries its runtime type; an object is the *)
(* sequence of its own properties in enumeration order.                    *)
(***************************************************************************)
\* Every value has the same fields, the tag says which one is meant:
\* b for a boolean, n for a number, s for a string, l for an array of strings.
Undefined == [tag |-> "undefined", b |-> FALSE, n |-> NaN, s |-> <<>>, l |-> <<>>]
BoolV(b) == [Undefined EXCEPT !.tag = "boolean", !.b = b]
NumV(x) == [Undefined EXCEPT !.tag = "number", !.n = x]
StrV(s) == [Undefined EXCEPT !.tag = "string", !.s = s]
ListV(l) == [Undefined EXCEPT !.tag = "array", !.l = l]

\* ToBoolean, as `if (existingValue)` and `!key` apply it.
Truthy(x) ==
  CASE x.tag = "undefined" -> FALSE
    [] x.tag = "boolean" -> x.b
    [] x.tag = "number" -> x.n.kind = "Infinity" \/ (x.n.kind = "finite" /\ x.n.ds # <<>>)
    [] x.tag = "string" -> x.s # <<>>
    [] OTHER -> TRUE

\* A property name that is a canonical array index; such names enumerate
\* first, in ascending numeric order, whatever the insertion order.
IsArrayIndex(name) ==
  /\ name # <<>>
  /\ Len(name) <= 9
  /\ AllDigits(name, 10)
  /\ (Len(name) = 1 \/ Head(name) # "0")

Names(obj) == [i \in DOMAIN obj |-> obj[i].name]

Has(obj, name) == \E i \in DOMAIN obj : obj[i].name = name

\* obj[name]; undefined when obj has no such property.
Get(obj, name) ==
  IF Has(obj, name) THEN obj[CHOOSE i \in DOMAIN obj : obj[i].name = name].val
  ELSE Undefined

\* Where a new property `name` enters the enumeration order of obj.
InsertAt(obj, name) ==
  IF IsArrayIndex(name)
    THEN Cardinality({i \in DOMAIN obj :
                        /\ IsArrayIndex(obj[i].name)
                        /\ RadixValue(obj[i].name, 10, 0) < RadixValue(name, 10, 0)}) + 1
  ELSE Len(obj) + 1

\* obj[name] = val: an existing property keeps its place, a new one enters
\* at its place in the enumeration order.
Put(obj, name, val) ==
  IF Has(obj, name)
    THEN [i \in DOMAIN obj |-> IF obj[i].name = name THEN [name |-> name, val |-> val] ELSE obj[i]]
  ELSE LET at == InsertAt(obj, name)
       IN  SubSeq(obj, 1, at - 1) \o <<[name |-> name, val |-> val]>> \o SubSeq(obj, at, Len(obj))

(***************************************************************************)
(* readValue                                                               *)
(***************************************************************************)
TrueWords == { <<"t", "r", "u", "e">>, <<"y", "e", "s">>, <<"o", "n">> }
FalseWords == { <<"f", "a", "l", "s", "e">>, <<"n", "o">>, <<"o", "f", "f">> }

\* readValue comparing the boolean words without regard to case.
readValueAnyCase(v) ==
  LET trimmed == Trim(v)
      numberValue == Number(trimmed)
      anyCaseTrue == TrueWords \cup { <<"T", "R", "U", "E">>, <<"T", "r", "u", "e">>,
                                      <<"Y", "e", "s">>, <<"Y", "E", "S">>, <<"O", "n">>, <<"O", "N">> }
      anyCaseFalse == FalseWords \cup { <<"F", "A", "L", "S", "E">>, <<"F", "a", "l", "s", "e">>,
                                        <<"N", "o">>, <<"N", "O">>, <<"O", "f", "f">>, <<"O", "F", "F">> }
  IN  IF trimmed \in anyCaseTrue THEN BoolV(TRUE)
      ELSE IF trimmed = <<"1">> THEN BoolV(TRUE)
      ELSE IF trimmed \in anyCaseFalse THEN BoolV(FALSE)
      ELSE IF trimmed = <<"0">> THEN BoolV(FALSE)
      ELSE IF isFinite(numberValue) THEN NumV(numberValue)
      ELSE StrV(trimmed)

readValue(v) ==
  LET trimmed == Trim(v)
      numberValue == Number(trimmed)
  IN  IF trimmed \in TrueWords THEN BoolV(TRUE)
      ELSE IF trimmed = <<"1">> THEN BoolV(TRUE)
      ELSE IF trimmed \in FalseWords THEN BoolV(FALSE)
      ELSE IF trimmed = <<"0">> THEN BoolV(FALSE)
      ELSE IF isFinite(numberValue) THEN NumV(numberValue)
      ELSE StrV(trimmed)

\* The console.warn calls readValue makes for v.
readValueWarnings(v) ==
  LET trimmed == Trim(v)
  IN  IF trimmed \in TrueWords THEN 0
      ELSE IF trimmed = <<"1">> THEN 1
      ELSE IF trimmed \in FalseWords THEN 0
      ELSE IF trimmed = <<"0">> THEN 1
      ELSE 0

(***************************************************************************)
(* INI.fromString                                                          *)
(***************************************************************************)
Null == [null |-> TRUE, v |-> <<>>]
Str(s) == [null |-> FALSE, v |-> s]

NoError == [thrown |-> FALSE, message |-> "", arg |-> <<>>]
Error(message, arg) == [thrown |-> TRUE, message |-> message, arg |-> arg]

NonEmpty(ln) == Len(ln) > 0
NotHash(ln) == ~StartsWith(ln, <<"#">>)
\* NotSemicolon letting every line through: `;` does not start a comment.
NotSemicolonKeepsAll(ln) == TRUE

NotSemicolon(ln) == ~StartsWith(ln, <<";">>)

RawData(d) ==
  ReplaceAllEmpty(ReplaceAllEmpty(Trim(d), <<"\\", "\n">>), <<"\\", "\r", "\n">>)

Lines(rd) ==
  LET split == Split(rd, "\n")
      trimmedLines == [i \in DOMAIN split |-> Trim(split[i])]
  IN  SelectSeq(SelectSeq(SelectSeq(trimmedLines, NonEmpty), NotHash), NotSemicolon)

IsHeader(ln) == StartsWith(ln, <<"[">>) /\ EndsWith(ln, <<"]">>)

\* StoreValue keeping every string in a list, a first one in a list of one.
StoreValueListOfOne(st, k, parsed) ==
  LET section == Get(st.iniData, st.currentSection.v)
      existingValue == Get(section, k)
      assigned == [st EXCEPT !.iniData = Put(@, st.currentSection.v, Put(section, k, parsed))]
  IN  IF parsed.tag = "string" /\ Truthy(existingValue)
        THEN IF existingValue.tag = "array"
               THEN [st EXCEPT !.iniData = Put(@, st.currentSection.v,
                        Put(section, k, ListV(Append(existingValue.l, parsed.s))))]
             ELSE IF existingValue.tag = "string"
               THEN [st EXCEPT !.iniData = Put(@, st.currentSection.v,
                        Put(section, k, ListV(<<existingValue.s, parsed.s>>)))]
             ELSE [st EXCEPT !.error = Error("Invalid value for key: ", k)]
      ELSE IF parsed.tag = "string"
        THEN [st EXCEPT !.iniData = Put(@, st.currentSection.v,
                 Put(section, k, ListV(<<parsed.s>>)))]
      ELSE assigned

\* The insertion of a parsed key into the section (lines 131-152).
StoreValue(st, k, parsed) ==
  LET section == Get(st.iniData, st.currentSection.v)
      existingValue == Get(section, k)
      assigned == [st EXCEPT !.iniData = Put(@, st.currentSection.v, Put(section, k, parsed))]
  IN  IF parsed.tag = "string" /\ Truthy(existingValue)
        THEN IF existingValue.tag = "array"
               THEN [st EXCEPT !.iniData = Put(@, st.currentSection.v,
                        Put(section, k, ListV(Append(existingValue.l, parsed.s))))]
             ELSE IF existingValue.tag = "string"
               THEN [st EXCEPT !.iniData = Put(@, st.currentSection.v,
                        Put(section, k, ListV(<<existingValue.s, parsed.s>>)))]
             ELSE [st EXCEPT !.error = Error("Invalid value for key: ", k)]
      ELSE assigned

\* One iteration of `for (const line of lines)` on a header line.
HeaderLine(st, ln) ==
  LET name == SubSeq(ln, 2, Len(ln) - 1)
  IN  [st EXCEPT !.currentSection = Str(name),
                 !.iniData = Put(@, name, <<>>),
                 !.key = Undefined, !.value = Undefined, !.parsedValue = Undefined]

\* KeyLine without the check that a section is open: the key goes to a
\* section created on the spot.
KeyLineWithoutSectionCheck(st, ln, rd) ==
  LET equalIndex == IndexOf(ln, "=")
      k == Trim(SubSeq(ln, 1, equalIndex - 1))
      val == Trim(SubSeq(ln, equalIndex + 1, Len(ln)))
      parsed == readValue(val)
      fresh == [st EXCEPT !.key = Undefined, !.value = Undefined, !.parsedValue = Undefined]
      split == [st EXCEPT !.key = StrV(k), !.value = StrV(val), !.parsedValue = Undefined]
      opened == IF Has(st.iniData, st.currentSection.v) THEN split
                ELSE [split EXCEPT !.iniData = Put(@, st.currentSection.v, <<>>)]
  IN  IF equalIndex = 0 THEN [fresh EXCEPT !.error = Error("Invalid line: ", ln)]
      ELSE IF k = <<>> \/ val = <<>> THEN [split EXCEPT !.error = Error("Invalid line: ", ln)]
      ELSE StoreValue([opened EXCEPT !.parsedValue = parsed,
                                     !.warnings = @ + readValueWarnings(val)], k, parsed)

\* KeyLine that passes over a line without `=` instead of throwing.
KeyLineSkippingBadLines(st, ln, rd) ==
  LET equalIndex == IndexOf(ln, "=")
      k == Trim(SubSeq(ln, 1, equalIndex - 1))
      val == Trim(SubSeq(ln, equalIndex + 1, Len(ln)))
      parsed == readValue(val)
      fresh == [st EXCEPT !.key = Undefined, !.value = Undefined, !.parsedValue = Undefined]
      split == [st EXCEPT !.key = StrV(k), !.value = StrV(val), !.parsedValue = Undefined]
  IN  IF equalIndex = 0 THEN fresh
      ELSE IF k = <<>> \/ val = <<>> THEN [split EXCEPT !.error = Error("Invalid line: ", ln)]
      ELSE IF st.currentSection.null \/ st.currentSection.v = <<>> \/ rd = <<>>
        THEN [split EXCEPT !.error = Error("Invalid ini: ", rd)]
      ELSE StoreValue([split EXCEPT !.parsedValue = parsed,
                                    !.warnings = @ + readValueWarnings(val)], k, parsed)

\* KeyLine splitting at the last `=` of the line instead of the first.
KeyLineSplitAtLastEquals(st, ln, rd) ==
  LET equalIndex == IF IndexOf(ln, "=") = 0 THEN 0
                    ELSE CHOOSE i \in DOMAIN ln :
                           ln[i] = "=" /\ \A j \in DOMAIN ln : ln[j] = "=" => j <= i
      k == Trim(SubSeq(ln, 1, equalIndex - 1))
      val == Trim(SubSeq(ln, equalIndex + 1, Len(ln)))
      parsed == readValue(val)
      fresh == [st EXCEPT !.key = Undefined, !.value = Undefined, !.parsedValue = Undefined]
      split == [st EXCEPT !.key = StrV(k), !.value = StrV(val), !.parsedValue = Undefined]
  IN  IF equalIndex = 0 THEN [fresh EXCEPT !.error = Error("Invalid line: ", ln)]
      ELSE IF k = <<>> \/ val = <<>> THEN [split EXCEPT !.error = Error("Invalid line: ", ln)]
      ELSE IF st.currentSection.null \/ st.currentSection.v = <<>> \/ rd = <<>>
        THEN [split EXCEPT !.error = Error("Invalid ini: ", rd)]
      ELSE StoreValue([split EXCEPT !.parsedValue = parsed,
                                    !.warnings = @ + readValueWarnings(val)], k, parsed)

\* One iteration of `for (const line of lines)` on any other line.
KeyLine(st, ln, rd) ==
  LET equalIndex == IndexOf(ln, "=")
      k == Trim(SubSeq(ln, 1, equalIndex - 1))
      val == Trim(SubSeq(ln, equalIndex + 1, Len(ln)))
      parsed == readValue(val)
      fresh == [st EXCEPT !.key = Undefined, !.value = Undefined, !.parsedValue = Undefined]
      split == [st EXCEPT !.key = StrV(k), !.value = StrV(val), !.parsedValue = Undefined]
  IN  IF equalIndex = 0 THEN [fresh EXCEPT !.error = Error("Invalid line: ", ln)]
      ELSE IF k = <<>> \/ val = <<>> THEN [split EXCEPT !.error = Error("Invalid line: ", ln)]
      ELSE IF st.currentSection.null \/ st.currentSection.v = <<>> \/ rd = <<>>
        THEN [split EXCEPT !.error = Error("Invalid ini: ", rd)]
      ELSE StoreValue([split EXCEPT !.parsedValue = parsed,
                                    !.warnings = @ + readValueWarnings(val)], k, parsed)

LoopBody(st, ln, rd) == IF IsHeader(ln) THEN HeaderLine(st, ln) ELSE KeyLine(st, ln, rd)

LoopStart ==
  [currentSection |-> Null, iniData |-> <<>>, key |-> Undefined, value |-> Undefined,
   parsedValue |-> Undefined, error |-> NoError, warnings |-> 0]

RECURSIVE Walk(_, _, _, _)
Walk(st, ls, i, rd) ==
  IF st.error.thrown \/ i > Len(ls) THEN st ELSE Walk(LoopBody(st, ls[i], rd), ls, i + 1, rd)

\* The whole call: the document returned, or the error thrown.
fromString(d) ==
  IF d = <<>> THEN [LoopStart EXCEPT !.error = Error("Invalid data", <<>>)]
  ELSE Walk(LoopStart, Lines(RawData(d)), 1, RawData(d))

(***************************************************************************)
(* INI.toString                                                            *)
(***************************************************************************)
KeyValueLine(k, s) == k \o <<"=">> \o s \o <<"\n">>

\* ValueLines writing a boolean with its own name, as a template literal would.
ValueLinesTrueFalse(k, sectionValue) ==
  CASE sectionValue.tag = "array" ->
         Concat([i \in DOMAIN sectionValue.l |-> KeyValueLine(k, sectionValue.l[i])])
    [] sectionValue.tag = "boolean" ->
         KeyValueLine(k, IF sectionValue.b THEN <<"t", "r", "u", "e">> ELSE <<"f", "a", "l", "s", "e">>)
    [] sectionValue.tag = "string" -> KeyValueLine(k, sectionValue.s)
    [] sectionValue.tag = "number" -> KeyValueLine(k, NumberToString(sectionValue.n))
    [] OTHER -> <<>>

\* ValueLines writing a line with an empty value for a value it has no case for.
ValueLinesEmptyForUndefined(k, sectionValue) ==
  CASE sectionValue.tag = "array" ->
         Concat([i \in DOMAIN sectionValue.l |-> KeyValueLine(k, sectionValue.l[i])])
    [] sectionValue.tag = "boolean" ->
         KeyValueLine(k, IF sectionValue.b THEN <<"y", "e", "s">> ELSE <<"n", "o">>)
    [] sectionValue.tag = "string" -> KeyValueLine(k, sectionValue.s)
    [] sectionValue.tag = "number" -> KeyValueLine(k, NumberToString(sectionValue.n))
    [] OTHER -> KeyValueLine(k, <<>>)

ValueLines(k, sectionValue) ==
  CASE sectionValue.tag = "array" ->
         Concat([i \in DOMAIN sectionValue.l |-> KeyValueLine(k, sectionValue.l[i])])
    [] sectionValue.tag = "boolean" ->
         KeyValueLine(k, IF sectionValue.b THEN <<"y", "e", "s">> ELSE <<"n", "o">>)
    [] sectionValue.tag = "string" -> KeyValueLine(k, sectionValue.s)
    [] sectionValue.tag = "number" -> KeyValueLine(k, NumberToString(sectionValue.n))
    [] OTHER -> <<>>

\* SectionText writing nothing for a section without keys.
SectionTextSkippingEmpty(name, sectionData) ==
  IF sectionData = <<>> THEN <<>>
  ELSE <<"[">> \o name \o <<"]", "\n">>
         \o Concat([i \in DOMAIN sectionData |-> ValueLines(sectionData[i].name, sectionData[i].val)])
         \o <<"\n">>

SectionText(name, sectionData) ==
  <<"[">> \o name \o <<"]", "\n">>
    \o Concat([i \in DOMAIN sectionData |-> ValueLines(sectionData[i].name, sectionData[i].val)])
    \o <<"\n">>

toString(d) == Trim(Concat([i \in DOMAIN d |-> SectionText(d[i].name, d[i].val)]))

(***************************************************************************)
(* Inputs.  A text is up to MaxLines physical lines joined by newlines,    *)
(* the lines drawn from one of three families; a token text is one section *)
(* with one key whose value is a token of up to MaxTokLen characters or    *)
(* one of a list of words.                                                 *)
(***************************************************************************)
MergeLines ==
  { <<"[", "S", "]">>, <<"[", "T", "]">>,
    <<"K", "=", "a">>, <<"K", "=", "b">>,
    <<"K", "=", "1">>, <<"K", "=", "0">>, <<"K", "=", "2">> }

ShapeLines ==
  { <<"[", "S", "]">>, <<"[", "]">>,
    <<"K", " ", "=", " ", "a">>, <<"K">>, <<"=", "a">>, <<"K", "=">>,
    <<"#", "c">>, <<" ">> }

OrderLines ==
  { <<"[", "S", "]">>, <<"[", "T", "]">>, <<"[", "1", "]">>,
    <<"K", "=", "a">>, <<"J", "=", "1", ".", "0">>, <<"1", "=", "b">>, <<"K", "=", "n", "o">> }

Texts(family) ==
  UNION { { Join(ls, <<"\n">>) : ls \in [1..n -> family] } : n \in 0..MaxLines }

TokenChars == {"0", "1", ".", "-", "e", "x", "b", ","}

TokenWords ==
  { <<"t", "r", "u", "e">>, <<"y", "e", "s">>, <<"o", "n">>,
    <<"f", "a", "l", "s", "e">>, <<"n", "o">>, <<"o", "f", "f">>,
    <<"T", "R", "U", "E">>, <<"Y", "e", "s">>, <<"O", "n">>, <<"T", "r", "u", "e">>,
    <<"F", "A", "L", "S", "E">>, <<"N", "o">>, <<"O", "F", "F">>, <<"y">>, <<"n">>,
    <<"0", "x", "1", "F">>, <<"0", "X", "f", "f">>, <<"0", "o", "1", "7">>, <<"0", "b", "1", "0", "1">>,
    <<"I", "n", "f", "i", "n", "i", "t", "y">>, <<"-", "I", "n", "f", "i", "n", "i", "t", "y">>,
    <<"N", "a", "N">>, <<"1", "0", "s">>, <<"5", "1", "2", "M">>, <<"1", ",", "0", "0", "0">>,
    <<"1", "e", "9", "9", "9">>, <<"1", "e", "-", "9", "9", "9">>, <<"1", "e", "2", "1">>,
    <<"1", "e", "-", "7">>, <<"+", "1", ".", "5">>, <<"1", "2", ".", "5", "0">>,
    <<"0", ".", "0", "0", "1">>, <<"1", "2", "0", "0">>, <<"1", " ", "2">>, <<"a", "l", "w", "a", "y", "s">> }

Tokens ==
  TokenWords \cup (UNION { [1..n -> TokenChars] : n \in 1..MaxTokLen })

TokenTexts == { <<"[", "S", "]", "\n", "K", "=">> \o t : t \in Tokens }

(***************************************************************************)
(* The state machine: one call of INI.fromString on `data`, walked line    *)
(* by line, then INI.toString on the document and a parse of its output.   *)
(***************************************************************************)
\* The two directories unit files are kept in; the file name, x.<type>, is
\* fixed by the unit, so a directory stands for a path.
SystemDir == "/etc/systemd/system"

ContainersDir == "/etc/containers/systemd"

Dirs == {SystemDir, ContainersDir}

\* existsSync(path) is false
NoFile == [exists |-> FALSE, content |-> <<>>]

FileOf(content) == [exists |-> TRUE, content |-> content]

NoFiles == [d \in Dirs |-> NoFile]

\* getUnit returned undefined
NoCurrent == [exists |-> FALSE, object |-> <<>>]

\* No Ctl has been constructed.
NoCtl == [stage |-> "none", current |-> NoCurrent, returned |-> <<>>]

\* Neither write(name, unit) nor ctl.write() has been called.
NoCall == [call |-> "none", returned |-> "", before |-> NoFiles, number |-> 0]

\* No unit of the typed layer has been made.
NoUnit == [kind |-> "", stage |-> "none", op |-> "", sections |-> <<>>, calls |-> <<>>,
           object |-> <<>>, back |-> [stage |-> "none", object |-> <<>>]]

Start(texts) ==
  /\ data \in texts
  /\ pc = "start"
  /\ unit = NoUnit
  /\ rawData = <<>>
  /\ lines = <<>>
  /\ idx = 0
  /\ currentSection = Null
  /\ iniData = <<>>
  /\ line = <<>>
  /\ key = Undefined
  /\ value = Undefined
  /\ parsedValue = Undefined
  /\ error = NoError
  /\ warnings = 0
  /\ text = <<>>
  /\ reparsed = LoopStart
  /\ files = NoFiles
  /\ ctl = NoCtl
  /\ lastCall = NoCall

Init == Start(Texts(MergeLines) \cup Texts(ShapeLines) \cup Texts(OrderLines))

InitTokens == Start(TokenTexts)

\* Lines 93-109: the empty check and the split into lines.
Begin ==
  /\ pc = "start"
  /\ IF data = <<>>
       THEN /\ error' = Error("Invalid data", <<>>)
            /\ pc' = "thrown"
            /\ UNCHANGED <<rawData, lines, idx>>
       ELSE /\ rawData' = RawData(data)
            /\ lines' = Lines(RawData(data))
            /\ idx' = 1
            /\ pc' = "loop"
            /\ UNCHANGED error
  /\ UNCHANGED <<files, ctl, lastCall, unit, data, currentSection, iniData, line, key, value, parsedValue,
                 warnings, text, reparsed>>

LoopState ==
  [currentSection |-> currentSection, iniData |-> iniData, key |-> key, value |-> value,
   parsedValue |-> parsedValue, error |-> error, warnings |-> warnings]

Iterate(st) ==
  /\ line' = lines[idx]
  /\ currentSection' = st.currentSection
  /\ iniData' = st.iniData
  /\ key' = st.key
  /\ value' = st.value
  /\ parsedValue' = st.parsedValue
  /\ error' = st.error
  /\ warnings' = st.warnings
  /\ idx' = idx + 1
  /\ pc' = IF st.error.thrown THEN "thrown" ELSE "loop"
  /\ UNCHANGED <<files, ctl, lastCall, unit, data, rawData, lines, text, reparsed>>

\* Lines 112-115: the line is a section header.
Header ==
  /\ pc = "loop"
  /\ idx <= Len(lines)
  /\ IsHeader(lines[idx])
  /\ Iterate(HeaderLine(LoopState, lines[idx]))

\* Lines 116-153: the line is anything else.
KeyValue ==
  /\ pc = "loop"
  /\ idx <= Len(lines)
  /\ ~IsHeader(lines[idx])
  /\ Iterate(KeyLine(LoopState, lines[idx], rawData))

\* Line 155: the loop is over, the document is returned.
Return ==
  /\ pc = "loop"
  /\ idx > Len(lines)
  /\ pc' = "returned"
  /\ UNCHANGED <<files, ctl, lastCall, unit, data, rawData, lines, idx, currentSection, iniData, line, key, value,
                 parsedValue, error, warnings, text, reparsed>>

\* INI.toString on the returned document.
ToStringCall ==
  /\ pc = "returned"
  /\ text' = toString(iniData)
  /\ pc' = "serialized"
  /\ UNCHANGED <<files, ctl, lastCall, unit, data, rawData, lines, idx, currentSection, iniData, line, key, value,
                 parsedValue, error, warnings, reparsed>>

\* INI.fromString on the text INI.toString wrote.
Reparse ==
  /\ pc = "serialized"
  /\ reparsed' = fromString(text)
  /\ pc' = "reparsed"
  /\ UNCHANGED <<files, ctl, lastCall, unit, data, rawData, lines, idx, currentSection, iniData, line, key, value,
                 parsedValue, error, warnings, text>>

Next == Begin \/ Header \/ KeyValue \/ Return \/ ToStringCall \/ Reparse

Spec == Init /\ [][Next]_vars

SpecTokens == InitTokens /\ [][Next]_vars

(***************************************************************************)
(* INI.fromObject, then INI.toString and a parse of its output.  The       *)
(* objects are documents of up to two sections with up to two keys each,   *)
(* the values drawn from ObjectValues.                                     *)
(***************************************************************************)
NullValue == [Undefined EXCEPT !.tag = "null"]

ObjectSectionNames == { <<"S">>, <<"T">> }

ObjectKeyNames == { <<"K">>, <<"J">> }

ObjectValues ==
  { Undefined, NullValue, BoolV(TRUE), BoolV(FALSE), NumV(Finite(FALSE, <<"1">>, 1)),
    StrV(<<"a">>) }

\* The objects with property names from `names` (each at most once, in any
\* order) and property values from `values`.
ObjectsOver(names, values) ==
  LET orders == { ns \in UNION { [1..n -> names] : n \in 0..Cardinality(names) } :
                    \A i, j \in DOMAIN ns : i # j => ns[i] # ns[j] }
  IN  UNION { { [i \in DOMAIN ns |-> [name |-> ns[i], val |-> vs[i]]] :
                  vs \in [DOMAIN ns -> values] } : ns \in orders }

ObjectDocuments == ObjectsOver(ObjectSectionNames, ObjectsOver(ObjectKeyNames, ObjectValues))

InitObjects ==
  /\ iniData \in ObjectDocuments
  /\ pc = "object"
  /\ unit = NoUnit
  /\ data = <<>>
  /\ rawData = <<>>
  /\ lines = <<>>
  /\ idx = 0
  /\ currentSection = Null
  /\ line = <<>>
  /\ key = Undefined
  /\ value = Undefined
  /\ parsedValue = Undefined
  /\ error = NoError
  /\ warnings = 0
  /\ text = <<>>
  /\ reparsed = LoopStart
  /\ files = NoFiles
  /\ ctl = NoCtl
  /\ lastCall = NoCall

\* The test fromObject applies to the value of a key (lines 65-80).
AcceptedValue(sectionValue) ==
  sectionValue.tag \in {"string", "undefined", "number", "boolean", "array"}

\* INI.fromObject on an object of sections: throws on the first key whose
\* value is not accepted, else keeps the object as the data of the INI.
FromObject ==
  /\ pc = "object"
  /\ IF \A i \in DOMAIN iniData : \A j \in DOMAIN iniData[i].val :
          AcceptedValue(iniData[i].val[j].val)
       THEN pc' = "returned" /\ UNCHANGED error
       ELSE LET i == CHOOSE i \in DOMAIN iniData :
                       /\ \E j \in DOMAIN iniData[i].val : ~AcceptedValue(iniData[i].val[j].val)
                       /\ \A h \in 1..(i - 1) : \A j \in DOMAIN iniData[h].val :
                            AcceptedValue(iniData[h].val[j].val)
                j == CHOOSE j \in DOMAIN iniData[i].val :
                       /\ ~AcceptedValue(iniData[i].val[j].val)
                       /\ \A h \in 1..(j - 1) : AcceptedValue(iniData[i].val[h].val)
            IN  /\ pc' = "thrown"
                /\ error' = Error("Invalid data for key: ", iniData[i].val[j].name)
  /\ UNCHANGED <<files, ctl, lastCall, unit, data, rawData, lines, idx, currentSection, iniData, line, key, value,
                 parsedValue, warnings, text, reparsed>>

NextObjects == FromObject \/ ToStringCall \/ Reparse

SpecObjects == InitObjects /\ [][NextObjects]_vars

(***************************************************************************)
(* What the output says, read off the text INI.toString wrote.             *)
(***************************************************************************)
Serialized == pc \in {"serialized", "reparsed"}

OutLines == Split(text, <<"\n">>[1])

\* What stands before and after the first `=` of an output line.
OutKey(ln) == SubSeq(ln, 1, IndexOf(ln, "=") - 1)

OutValue(ln) == SubSeq(ln, IndexOf(ln, "=") + 1, Len(ln))

\* The values written in lines ls[i..] for key k of section s, in order; cur
\* is the name in the last header above line i.
RECURSIVE OutValuesFrom(_, _, _, _, _)
OutValuesFrom(ls, i, cur, s, k) ==
  IF i > Len(ls) THEN <<>>
  ELSE IF IsHeader(ls[i]) THEN OutValuesFrom(ls, i + 1, Str(SubSeq(ls[i], 2, Len(ls[i]) - 1)), s, k)
  ELSE (IF cur = Str(s) /\ IndexOf(ls[i], "=") # 0 /\ OutKey(ls[i]) = k
          THEN <<OutValue(ls[i])>> ELSE <<>>) \o OutValuesFrom(ls, i + 1, cur, s, k)

\* The values written for key k under the header of section s, in order.
OutValues(ls, s, k) == OutValuesFrom(ls, 1, Null, s, k)

\* The names in the headers of the output, in order.
OutHeaders == SelectSeq(OutLines, IsHeader)

(***************************************************************************)
(* C11: on output a boolean is written as `key=yes` (true) or `key=no`     *)
(* (false), one line, and in no other spelling.                            *)
(***************************************************************************)
C11_BooleansAsYesNo ==
  Serialized =>
    LET ls == OutLines
    IN  \A i \in DOMAIN iniData : \A j \in DOMAIN iniData[i].val :
      iniData[i].val[j].val.tag = "boolean" =>
        OutValues(ls, iniData[i].name, iniData[i].val[j].name)
          = << IF iniData[i].val[j].val.b THEN <<"y", "e", "s">> ELSE <<"n", "o">> >>

C11_Witness ==
  /\ Serialized
  /\ \E i \in DOMAIN iniData : \E j, h \in DOMAIN iniData[i].val :
       /\ iniData[i].val[j].val = BoolV(TRUE)
       /\ iniData[i].val[h].val = BoolV(FALSE)
  /\ OutValues(OutLines, <<"S">>, <<"K">>) = << <<"y", "e", "s">> >>

Defined(entry) == entry.val.tag # "undefined"

WithoutUndefined(d) ==
  [i \in DOMAIN d |-> [name |-> d[i].name, val |-> SelectSeq(d[i].val, Defined)]]

(***************************************************************************)
(* C12: a key whose value is undefined, or that is absent, gets no line in *)
(* the output (no `Key=` either), and the output is the one of the         *)
(* document without that key.                                              *)
(***************************************************************************)
C12_UndefinedOmitted ==
  Serialized =>
    LET ls == OutLines
    IN  /\ \A i \in DOMAIN iniData : \A k \in ObjectKeyNames :
             Get(iniData[i].val, k) = Undefined => OutValues(ls, iniData[i].name, k) = <<>>
        /\ text = toString(WithoutUndefined(iniData))

C12_Witness ==
  /\ Serialized
  /\ iniData = << [name |-> <<"S">>,
                   val |-> << [name |-> <<"J">>, val |-> Undefined],
                              [name |-> <<"K">>, val |-> StrV(<<"a">>)] >>] >>
  /\ text = <<"[", "S", "]", "\n", "K", "=", "a">>

(***************************************************************************)
(* Texts in the serializer's own form: what INI.toString writes for the    *)
(* documents of up to two sections with up to two keys each that hold a    *)
(* boolean, a number, a string or a list of strings.                       *)
(***************************************************************************)
SerializerValues ==
  { BoolV(TRUE), BoolV(FALSE), NumV(Finite(FALSE, <<"1">>, 1)), StrV(<<"a">>),
    ListV(<< <<"a">>, <<"b">> >>) }

SerializerDocuments ==
  ObjectsOver(ObjectSectionNames, ObjectsOver(ObjectKeyNames, SerializerValues))

SerializerTexts == { toString(d) : d \in SerializerDocuments }

InitSerializer == Start(SerializerTexts)

SpecSerializer == InitSerializer /\ [][Next]_vars

(***************************************************************************)
(* C13: for a text already in the serializer's own form, the parse does    *)
(* not throw (the empty text apart) and INI.fromString(text).toString()    *)
(* is the trimmed text.                                                    *)
(***************************************************************************)
C13_TextRoundTrip ==
  /\ pc = "thrown" => data = <<>>
  /\ Serialized => text = Trim(data)

(***************************************************************************)
(* What the input says, read off the logical lines without the parser:     *)
(* used to state the properties below.                                     *)
(***************************************************************************)
Returned == pc \in {"returned", "serialized", "reparsed"}

HeaderName(ln) == SubSeq(ln, 2, Len(ln) - 1)

KeyOf(ln) == Trim(SubSeq(ln, 1, IndexOf(ln, "=") - 1))

TokenOf(ln) == Trim(SubSeq(ln, IndexOf(ln, "=") + 1, Len(ln)))

WellFormedKeyLine(ln) ==
  /\ ~IsHeader(ln)
  /\ IndexOf(ln, "=") # 0
  /\ KeyOf(ln) # <<>>
  /\ TokenOf(ln) # <<>>

MalformedLine(ln) == ~IsHeader(ln) /\ ~WellFormedKeyLine(ln)

HeadersBefore(i) == {j \in 1..(i - 1) : IsHeader(lines[j])}

\* The name of the section line i lies in; only used when a header precedes.
SectionOfLine(i) ==
  HeaderName(lines[CHOOSE j \in HeadersBefore(i) : \A h \in HeadersBefore(i) : h <= j])

IsOccurrence(i, s, k) ==
  /\ WellFormedKeyLine(lines[i])
  /\ HeadersBefore(i) # {}
  /\ SectionOfLine(i) = s
  /\ KeyOf(lines[i]) = k

\* The tokens given to key k of section s, in the order of the lines.
RECURSIVE Occurrences(_, _, _)
Occurrences(i, s, k) ==
  IF i > Len(lines) THEN <<>>
  ELSE (IF IsOccurrence(i, s, k) THEN <<TokenOf(lines[i])>> ELSE <<>>) \o Occurrences(i + 1, s, k)

SectionNames == {HeaderName(lines[i]) : i \in {j \in DOMAIN lines : IsHeader(lines[j])}}

KeyNames == {KeyOf(lines[i]) : i \in {j \in DOMAIN lines : WellFormedKeyLine(lines[j])}}

\* The distinct header names in the order of their first header.
RECURSIVE FirstHeaders(_, _)
FirstHeaders(i, seen) ==
  IF i > Len(lines) THEN <<>>
  ELSE IF IsHeader(lines[i]) /\ HeaderName(lines[i]) \notin seen
    THEN <<HeaderName(lines[i])>> \o FirstHeaders(i + 1, seen \cup {HeaderName(lines[i])})
  ELSE FirstHeaders(i + 1, seen)

NotArrayIndex(name) == ~IsArrayIndex(name)

\* The value stored for key k of section s in the document being built.
Stored(s, k) == Get(Get(iniData, s), k)

\* The loop is about to read a well-formed key line inside a named section.
AtKeyLine ==
  /\ pc = "loop"
  /\ idx <= Len(lines)
  /\ WellFormedKeyLine(lines[idx])
  /\ ~currentSection.null
  /\ currentSection.v # <<>>

(***************************************************************************)
(* C1: round trip.  For every document d that INI.fromString returns,      *)
(* parsing the text INI.toString writes for d succeeds and gives a         *)
(* document structurally equal to d.  (Stated for documents with at least  *)
(* one section.)  Fails: the number 1 is written as `1`, which parses as   *)
(* the boolean true.                                                       *)
(***************************************************************************)
C1_RoundTrip ==
  (pc = "reparsed" /\ iniData # <<>>) =>
     (~reparsed.error.thrown /\ reparsed.iniData = iniData)

(***************************************************************************)
(* C2: multi-value promotion.  When a key occurs n >= 2 times in one       *)
(* section and every occurrence coerces to a string, the parsed value is   *)
(* the list of those n strings in the order of the lines.  Fails when the  *)
(* section header occurs again between two occurrences (see C3).           *)
(***************************************************************************)
C2_Promotion ==
  Returned =>
    \A s \in SectionNames : \A k \in KeyNames :
      LET occ == Occurrences(1, s, k)
      IN  (Len(occ) >= 2 /\ \A i \in DOMAIN occ : readValue(occ[i]).tag = "string")
            => Stored(s, k) = ListV(occ)

(***************************************************************************)
(* C3: re-opening a section.  The returned section holds every key found   *)
(* under all of its headers, and the sections stand in the order of their  *)
(* first headers (stated for the names that are not array indices, which   *)
(* the host language enumerates first).  Fails: a repeated header empties  *)
(* the section.                                                            *)
(***************************************************************************)
C3_ReopenKeepsKeys ==
  Returned =>
    /\ \A s \in SectionNames : \A k \in KeyNames :
         Occurrences(1, s, k) # <<>> => Has(Get(iniData, s), k)
    /\ SelectSeq(Names(iniData), NotArrayIndex) = SelectSeq(FirstHeaders(1, {}), NotArrayIndex)

(***************************************************************************)
(* C4: a key whose stored value is a boolean or a number and that occurs   *)
(* again in the same section makes INI.fromString throw, whatever the new  *)
(* token coerces to.  Fails: a new boolean or number replaces the stored   *)
(* value, and a string replaces a stored false.                            *)
(***************************************************************************)
C4_RepeatedNonStringThrows ==
  [][ (AtKeyLine /\ Stored(currentSection.v, KeyOf(lines[idx])).tag \in {"boolean", "number"})
        => error'.thrown ]_vars

(***************************************************************************)
(* C5: a key whose stored value is a string or a string list and that      *)
(* occurs again with a token that coerces to a boolean or a number makes   *)
(* INI.fromString throw.  Fails: the new value replaces the stored one.    *)
(***************************************************************************)
C5_StringThenNonStringThrows ==
  [][ (/\ AtKeyLine
       /\ Stored(currentSection.v, KeyOf(lines[idx])).tag \in {"string", "array"}
       /\ readValue(TokenOf(lines[idx])).tag \in {"boolean", "number"})
        => error'.thrown ]_vars

(***************************************************************************)
(* C6: INI.fromString throws for every input that is empty after           *)
(* trimming.  Fails: only the empty string is rejected, a whitespace-only  *)
(* text returns the empty document.                                        *)
(***************************************************************************)
C6_EmptyAfterTrimThrows ==
  (Trim(data) = <<>>) => pc \in {"start", "thrown"}

(***************************************************************************)
(* C7: a well-formed key=value line that comes before any section header   *)
(* makes INI.fromString throw ("Invalid ini"), and every entry of the      *)
(* document is a section opened by a header: no key is stored outside a    *)
(* section.                                                                *)
(***************************************************************************)
C7_KeyBeforeHeaderThrows ==
  /\ \A i \in DOMAIN lines :
       (i < idx /\ WellFormedKeyLine(lines[i]) /\ HeadersBefore(i) = {})
         => (pc = "thrown" /\ idx = i + 1 /\ error.message = "Invalid ini: ")
  /\ \A e \in DOMAIN iniData :
       iniData[e].name \in {HeaderName(lines[j]) : j \in HeadersBefore(idx)}

C7_Witness ==
  /\ pc = "thrown"
  /\ error = Error("Invalid ini: ", rawData)
  /\ currentSection.null
  /\ WellFormedKeyLine(line)
  /\ iniData = <<>>

(***************************************************************************)
(* C8: a line that is not a header and has no `=`, or an empty key or an   *)
(* empty value, makes INI.fromString throw an error naming that line       *)
(* ("Invalid line: " and the line); no document is returned for an input   *)
(* holding such a line, wherever the line is.                              *)
(***************************************************************************)
C8_MalformedLineThrows ==
  /\ Returned => \A i \in DOMAIN lines : ~MalformedLine(lines[i])
  /\ \A i \in DOMAIN lines :
       (i < idx /\ MalformedLine(lines[i]))
         => (pc = "thrown" /\ idx = i + 1 /\ error = Error("Invalid line: ", lines[i]))

C8_Witness ==
  /\ pc = "thrown"
  /\ error = Error("Invalid line: ", line)
  /\ MalformedLine(line)
  /\ idx > 3
  /\ \E i \in DOMAIN iniData : iniData[i].val # <<>>

(***************************************************************************)
(* C9: boolean coercion is exact and case-sensitive.  A token coerces to   *)
(* true exactly when it is one of true, yes, on, 1 and to false exactly    *)
(* when it is one of false, no, off, 0; for 1 and 0 a warning is issued    *)
(* and the parse goes on; every other token becomes a number or a string.  *)
(***************************************************************************)
C9_BooleanWordsExact ==
  parsedValue.tag # "undefined" =>
    /\ parsedValue = BoolV(TRUE)
         <=> value.s \in { <<"t", "r", "u", "e">>, <<"y", "e", "s">>, <<"o", "n">>, <<"1">> }
    /\ parsedValue = BoolV(FALSE)
         <=> value.s \in { <<"f", "a", "l", "s", "e">>, <<"n", "o">>, <<"o", "f", "f">>, <<"0">> }
    /\ parsedValue.tag \in {"boolean", "number", "string"}
    /\ value.s \in { <<"1">>, <<"0">> } => (pc # "thrown" /\ warnings >= 1)
    /\ value.s \notin { <<"1">>, <<"0">> } => warnings = 0

C9_Witness ==
  /\ Returned
  /\ value.s = <<"1">>
  /\ parsedValue = BoolV(TRUE)
  /\ warnings = 1
  /\ Stored(<<"S">>, <<"K">>) = BoolV(TRUE)

\* A decimal numeral: optional sign, digits with at most one point, and an
\* optional exponent.
IsDecimalNumeral(t) ==
  LET u == IF t # <<>> /\ Head(t) \in {"+", "-"} THEN Tail(t) ELSE t
      ePos == IF IndexOf(u, "e") # 0 THEN IndexOf(u, "e") ELSE IndexOf(u, "E")
      mant == IF ePos = 0 THEN u ELSE SubSeq(u, 1, ePos - 1)
      expo == IF ePos = 0 THEN <<>> ELSE SubSeq(u, ePos + 1, Len(u))
      expDigits == IF expo # <<>> /\ Head(expo) \in {"+", "-"} THEN Tail(expo) ELSE expo
      digits == SelectSeq(mant, LAMBDA c : c # ".")
  IN  /\ digits # <<>>
      /\ \A i \in DOMAIN digits : digits[i] \in Range(DecChars)
      /\ Len(mant) - Len(digits) <= 1
      /\ ePos # 0 => (expDigits # <<>> /\ \A i \in DOMAIN expDigits : expDigits[i] \in Range(DecChars))

(***************************************************************************)
(* C10: a non-boolean token coerces to a number exactly when it is a       *)
(* finite decimal numeral; every other token is stored as the string       *)
(* token unchanged.  Fails: 0x, 0o and 0b literals coerce to numbers.      *)
(***************************************************************************)
C10_DecimalNumeralsOnly ==
  parsedValue.tag \in {"number", "string"} =>
    IF IsDecimalNumeral(value.s) /\ isFinite(Number(value.s))
      THEN parsedValue.tag = "number"
    ELSE parsedValue = StrV(value.s)

(***************************************************************************)
(* Texts with line breaks inside a value: `[S]`, then `K=a`, up to        *)
(* MaxBreakLen characters out of a space, a backslash, a carriage return   *)
(* and a newline, and `b`.                                                 *)
(***************************************************************************)
MaxBreakLen == 5

BreakChars == {" ", "\\", "\r", "\n"}

BreakTexts ==
  { <<"[", "S", "]", "\n", "K", "=", "a">> \o t \o <<"b">> :
      t \in UNION { [1..n -> BreakChars] : n \in 0..MaxBreakLen } }

InitBreaks == Start(BreakTexts)

SpecBreaks == InitBreaks /\ [][Next]_vars

\* The text s without its continuations: every backslash of s that is
\* immediately followed by a newline, or by a carriage return and a
\* newline, is deleted with that sequence and nothing else is.
RECURSIVE Collapse(_)
Collapse(s) ==
  IF s = <<>> THEN <<>>
  ELSE IF StartsWith(s, <<"\\", "\n">>) THEN Collapse(SubSeq(s, 3, Len(s)))
  ELSE IF StartsWith(s, <<"\\", "\r", "\n">>) THEN Collapse(SubSeq(s, 4, Len(s)))
  ELSE <<Head(s)>> \o Collapse(Tail(s))

(***************************************************************************)
(* C14: the text the lines are split from is the trimmed input with every  *)
(* backslash-newline and backslash-CR-newline of it deleted, exactly those *)
(* and with nothing put in their place; when what is left after `[S]` is   *)
(* one line, it is read as one `K=value` line and the value stored is that *)
(* line's text after `=`, inner whitespace kept.                           *)
(***************************************************************************)
C14_ContinuationCollapsing ==
  /\ pc # "start" => rawData = Collapse(Trim(data))
  /\ LET logical == Split(Collapse(Trim(data)), "\n")
     IN  (Returned /\ Len(logical) = 2 /\ TokenOf(logical[2]) # <<>>) =>
           Stored(<<"S">>, <<"K">>) = readValue(TokenOf(logical[2]))

(***************************************************************************)
(* Texts with comments: whole-line comments that look like a key line or   *)
(* a header, and key lines with a `#` or a `;` inside the value.           *)
(***************************************************************************)
CommentLines ==
  { <<"[", "S", "]">>, <<"K", "=", "a">>,
    <<" ", "#", "K", "=", "b">>, <<";", "[", "T", "]">>,
    <<"K", "=", "a", " ", "#", "c">>, <<"K", "=", "b", ";", "c">> }

InitComments == Start(Texts(CommentLines))

SpecComments == InitComments /\ [][Next]_vars

\* A line whose first character that is not whitespace is `#` or `;`.
IsCommentLine(ln) == TrimStart(ln) # <<>> /\ Head(TrimStart(ln)) \in {"#", ";"}

IsBlankLine(ln) == Trim(ln) = <<>>

KeptLine(ln) == ~IsCommentLine(ln) /\ ~IsBlankLine(ln)

\* The lines of d that are neither blank nor comments, trimmed.
KeptLines(d) ==
  LET kept == SelectSeq(Split(d, "\n"), KeptLine)
  IN  [i \in DOMAIN kept |-> Trim(kept[i])]

(***************************************************************************)
(* C15: a line whose first non-whitespace character is `#` or `;` adds     *)
(* nothing: the parser walks exactly the other non-blank lines.  A `#` or  *)
(* `;` further into a key line is no comment: the value read from the      *)
(* line is everything after the first `=`, trimmed, those characters in.   *)
(***************************************************************************)
C15_CommentLinesDropped ==
  /\ pc \notin {"start"} => lines = KeptLines(data)
  /\ (pc \in {"loop", "returned"} /\ idx > 1 /\ WellFormedKeyLine(lines[idx - 1])
        /\ currentSection # Null)
       => /\ value = StrV(TokenOf(lines[idx - 1]))
          /\ parsedValue = readValue(TokenOf(lines[idx - 1]))
          /\ Stored(currentSection.v, KeyOf(lines[idx - 1])).tag \in {"string", "array"}
          /\ Stored(currentSection.v, KeyOf(lines[idx - 1])).tag = "string"
               => Stored(currentSection.v, KeyOf(lines[idx - 1])) = StrV(TokenOf(lines[idx - 1]))

C15_Witness ==
  /\ Returned
  /\ \E i \in DOMAIN Split(data, "\n") : IsCommentLine(Split(data, "\n")[i])
  /\ Has(iniData, <<"S">>)
  /\ Stored(<<"S">>, <<"K">>) = ListV(<< <<"a", " ", "#", "c">>, <<"b", ";", "c">> >>)

\* The section names of the input with no key line under any of their headers.
EmptySections ==
  { s \in SectionNames :
      \A i \in DOMAIN lines :
        ~(WellFormedKeyLine(lines[i]) /\ HeadersBefore(i) # {} /\ SectionOfLine(i) = s) }

(***************************************************************************)
(* C16: a section whose headers are followed directly by another header    *)
(* or by the end of the input is in the document with an empty mapping;    *)
(* INI.toString writes its `[Name]` header with no key line under it, and  *)
(* parsing that output gives the empty section back.                       *)
(***************************************************************************)
C16_EmptySections ==
  \A s \in EmptySections :
    /\ Returned => Has(iniData, s) /\ Get(iniData, s) = <<>>
    /\ Serialized =>
         \E i \in DOMAIN OutLines :
           /\ OutLines[i] = <<"[">> \o s \o <<"]">>
           /\ i = Len(OutLines) \/ OutLines[i + 1] = <<>>
    /\ pc = "reparsed" =>
         /\ ~reparsed.error.thrown
         /\ Has(reparsed.iniData, s)
         /\ Get(reparsed.iniData, s) = <<>>

C16_Witness ==
  /\ pc = "reparsed"
  /\ EmptySections = { <<"S">> }
  /\ text = <<"[", "S", "]", "\n", "\n", "[", "T", "]", "\n", "K", "=", "a">>
  /\ reparsed.iniData = iniData

\* The shapes a stored value may have.
ValueShape(v) ==
  \/ v.tag = "boolean"
  \/ v.tag = "number" /\ isFinite(v.n)
  \/ v.tag = "string" /\ v.s # <<>>
  \/ v.tag = "array" /\ Len(v.l) >= 2 /\ \A i \in DOMAIN v.l : v.l[i] # <<>>

ShapedDocument(d) ==
  \A i \in DOMAIN d : \A j \in DOMAIN d[i].val : ValueShape(d[i].val[j].val)

(***************************************************************************)
(* C17: at every step of a parse and in every document INI.fromString      *)
(* returns, each stored value is a boolean, a finite number, a non-empty   *)
(* string, or a list of at least two strings, none of them empty.          *)
(***************************************************************************)
C17_ValueShape ==
  /\ ShapedDocument(iniData)
  /\ pc = "reparsed" => ShapedDocument(reparsed.iniData)

C17_Witness ==
  /\ pc = "loop"
  /\ \E i \in DOMAIN iniData : \E j, h \in DOMAIN iniData[i].val :
       /\ iniData[i].val[j].val.tag = "array"
       /\ iniData[i].val[h].val.tag \in {"number", "boolean"}

\* The distinct keys of the key lines of section s in the input, in the
\* order of their first line.
RECURSIVE FirstKeys(_, _, _)
FirstKeys(i, s, seen) ==
  IF i > Len(lines) THEN <<>>
  ELSE IF /\ WellFormedKeyLine(lines[i]) /\ HeadersBefore(i) # {} /\ SectionOfLine(i) = s
          /\ KeyOf(lines[i]) \notin seen
    THEN <<KeyOf(lines[i])>> \o FirstKeys(i + 1, s, seen \cup {KeyOf(lines[i])})
  ELSE FirstKeys(i + 1, s, seen)

\* The distinct keys written in lines ls[i..] under the header of section
\* s, in the order of their first line.
RECURSIVE OutKeysFrom(_, _, _, _, _)
OutKeysFrom(ls, i, cur, s, seen) ==
  IF i > Len(ls) THEN <<>>
  ELSE IF IsHeader(ls[i])
    THEN OutKeysFrom(ls, i + 1, Str(SubSeq(ls[i], 2, Len(ls[i]) - 1)), s, seen)
  ELSE IF cur = Str(s) /\ IndexOf(ls[i], "=") # 0 /\ OutKey(ls[i]) \notin seen
    THEN <<OutKey(ls[i])>> \o OutKeysFrom(ls, i + 1, cur, s, seen \cup {OutKey(ls[i])})
  ELSE OutKeysFrom(ls, i + 1, cur, s, seen)

OutKeys(ls, s) == OutKeysFrom(ls, 1, Null, s, {})

OutHeaderNames == [i \in DOMAIN OutHeaders |-> SubSeq(OutHeaders[i], 2, Len(OutHeaders[i]) - 1)]

(***************************************************************************)
(* C18: whatever the section and key names are, INI.toString writes the    *)
(* sections in the order of their first header in the input, the keys of   *)
(* a section (those the document holds) in the order of their first line,  *)
(* and the elements of a list one line each in list order.                 *)
(***************************************************************************)
C18_OrderPreserved ==
  Serialized =>
    LET ls == OutLines
    IN  /\ OutHeaderNames = FirstHeaders(1, {})
        /\ \A i \in DOMAIN iniData :
             /\ OutKeys(ls, iniData[i].name)
                  = SelectSeq(FirstKeys(1, iniData[i].name, {}),
                              LAMBDA k : Has(iniData[i].val, k))
             /\ \A j \in DOMAIN iniData[i].val :
                  iniData[i].val[j].val.tag = "array" =>
                    OutValues(ls, iniData[i].name, iniData[i].val[j].name)
                      = iniData[i].val[j].val.l

(***************************************************************************)
(* The typed layer: Service, Timer and Container units over the sections   *)
(* Unit, Install and the unit's own section.  Of the keys of each section  *)
(* the model keeps the ones below; PrivateInvalid is in no schema.         *)
(***************************************************************************)
UnitName == <<"U", "n", "i", "t">>

InstallName == <<"I", "n", "s", "t", "a", "l", "l">>

ServiceName == <<"S", "e", "r", "v", "i", "c", "e">>

TimerName == <<"T", "i", "m", "e", "r">>

ContainerName == <<"C", "o", "n", "t", "a", "i", "n", "e", "r">>

Description == <<"D", "e", "s", "c", "r", "i", "p", "t", "i", "o", "n">>

WantedBy == <<"W", "a", "n", "t", "e", "d", "B", "y">>

ExecStart == <<"E", "x", "e", "c", "S", "t", "a", "r", "t">>

PrivateTmp == <<"P", "r", "i", "v", "a", "t", "e", "T", "m", "p">>

OnCalendar == <<"O", "n", "C", "a", "l", "e", "n", "d", "a", "r">>

Persistent == <<"P", "e", "r", "s", "i", "s", "t", "e", "n", "t">>

Image == <<"I", "m", "a", "g", "e">>

PrivateInvalid == <<"P", "r", "i", "v", "a", "t", "e", "I", "n", "v", "a", "l", "i", "d">>

Kinds == {"Service", "Timer", "Container"}

\* One property of a z.object shape: its name and the types of value its
\* optional schema accepts besides undefined.
Field(name, tags) == [name |-> name, tags |-> tags]

UnitSectionSchema == [shape |-> << Field(Description, {"string"}) >>, strict |-> TRUE]

InstallSectionSchema ==
  [shape |-> << Field(WantedBy, {"string", "array"}) >>, strict |-> FALSE]

ServiceSectionSchema ==
  [shape |-> << Field(ExecStart, {"string", "array"}), Field(PrivateTmp, {"boolean"}) >>,
   strict |-> TRUE]

TimerSectionSchema ==
  [shape |-> << Field(OnCalendar, {"string"}), Field(Persistent, {"boolean"}) >>,
   strict |-> TRUE]

ContainerSectionSchema == [shape |-> << Field(Image, {"string"}) >>, strict |-> FALSE]

ShapeNames(schema) == {schema.shape[i].name : i \in DOMAIN schema.shape}

\* ZodObject.parse forgetting a key whose value is undefined.
ZodParseDroppingUndefined(schema, obj) ==
  LET present == SelectSeq(schema.shape, LAMBDA f : Get(obj, f.name) # Undefined)
  IN  [ok |-> /\ \A i \in DOMAIN schema.shape :
                   Get(obj, schema.shape[i].name).tag \in schema.shape[i].tags \cup {"undefined"}
              /\ schema.strict => \A i \in DOMAIN obj : obj[i].name \in ShapeNames(schema),
       value |-> [i \in DOMAIN present |->
                    [name |-> present[i].name, val |-> Get(obj, present[i].name)]]]

\* ZodObject.parse on an object: every key of the shape must hold a value
\* of its type or undefined, a strict schema throws on a key outside the
\* shape and any other schema drops it; the result has the keys of the
\* shape that the object has, in the order of the shape.
ZodParse(schema, obj) ==
  LET present == SelectSeq(schema.shape, LAMBDA f : Has(obj, f.name))
  IN  [ok |-> /\ \A i \in DOMAIN schema.shape :
                   Get(obj, schema.shape[i].name).tag \in schema.shape[i].tags \cup {"undefined"}
              /\ schema.strict => \A i \in DOMAIN obj : obj[i].name \in ShapeNames(schema),
       value |-> [i \in DOMAIN present |->
                    [name |-> present[i].name, val |-> Get(obj, present[i].name)]]]

MainName(kind) ==
  CASE kind = "Service" -> ServiceName
    [] kind = "Timer" -> TimerName
    [] OTHER -> ContainerName

MainSchema(kind) ==
  CASE kind = "Service" -> ServiceSectionSchema
    [] kind = "Timer" -> TimerSectionSchema
    [] OTHER -> ContainerSectionSchema

SectionSchema(kind, name) ==
  IF name = UnitName THEN UnitSectionSchema
  ELSE IF name = InstallName THEN InstallSectionSchema
  ELSE MainSchema(kind)

\* ServiceUnitSchema, TimerUnitSchema and ContainerUnitSchema: Unit and the
\* unit's own section are required, Install is optional, any other section
\* is dropped.
UnitSchemaParse(kind, doc) ==
  LET sectionNames == SelectSeq(<<UnitName, InstallName, MainName(kind)>>,
                                LAMBDA n : Has(doc, n))
  IN  [ok |-> /\ Has(doc, UnitName)
              /\ Has(doc, MainName(kind))
              /\ \A i \in DOMAIN sectionNames :
                   ZodParse(SectionSchema(kind, sectionNames[i]), Get(doc, sectionNames[i])).ok,
       value |-> [i \in DOMAIN sectionNames |->
                    [name |-> sectionNames[i],
                     val |-> ZodParse(SectionSchema(kind, sectionNames[i]),
                                      Get(doc, sectionNames[i])).value]]]

\* The argument a constructor takes when it is called without one.
DefaultDocument(kind) ==
  << [name |-> UnitName, val |-> <<>>], [name |-> MainName(kind), val |-> <<>>] >>

\* new Service(doc), new Timer(doc), new Container(doc): the unit schema,
\* then one section builder per section, each parsing its section again.
Construct(kind, op, doc) ==
  LET parsed == UnitSchemaParse(kind, doc)
      Section(n) == IF Has(parsed.value, n) THEN Get(parsed.value, n) ELSE <<>>
  IN  IF ~parsed.ok
        THEN [NoUnit EXCEPT !.kind = kind, !.op = op, !.stage = "thrown"]
      ELSE [NoUnit EXCEPT !.kind = kind, !.op = op, !.stage = "built",
              !.sections =
                << [name |-> UnitName,
                    val |-> ZodParse(UnitSectionSchema, Section(UnitName)).value],
                   [name |-> InstallName,
                    val |-> ZodParse(InstallSectionSchema, Section(InstallName)).value],
                   [name |-> MainName(kind),
                    val |-> ZodParse(MainSchema(kind), Section(MainName(kind))).value] >>]

\* Unit.fromObject and Unit.fromINI: the unit schema on the object (on
\* ini.toObject()), then the constructor on what the schema returned.
ConstructParsed(kind, op, doc) ==
  IF UnitSchemaParse(kind, doc).ok
    THEN Construct(kind, op, UnitSchemaParse(kind, doc).value)
  ELSE [NoUnit EXCEPT !.kind = kind, !.op = op, !.stage = "thrown"]

\* unit.toObject(): every section builder parses its section, and
\* INI.fromObject looks at the values.
ToObjectOf(kind, sections) ==
  LET parsed == [i \in DOMAIN sections |->
                   ZodParse(SectionSchema(kind, sections[i].name), sections[i].val)]
  IN  IF /\ \A i \in DOMAIN sections : parsed[i].ok
         /\ \A i \in DOMAIN sections : \A j \in DOMAIN parsed[i].value :
              AcceptedValue(parsed[i].value[j].val)
        THEN [thrown |-> FALSE,
              object |-> [i \in DOMAIN sections |->
                            [name |-> sections[i].name, val |-> parsed[i].value]]]
      ELSE [thrown |-> TRUE, object |-> <<>>]

(***************************************************************************)
(* Units made from a document, and units made empty and filled by up to    *)
(* MaxCalls setter calls.                                                  *)
(***************************************************************************)
MaxCalls == 3

SectionCandidates(schema) ==
  ObjectsOver({schema.shape[1].name, PrivateInvalid}, {StrV(<<"a">>), BoolV(TRUE)})

SectionOptions(name, schema) ==
  { <<>> } \cup { << [name |-> name, val |-> o] >> : o \in SectionCandidates(schema) }

UnitDocuments(kind) ==
  { u \o i \o m : u \in SectionOptions(UnitName, UnitSectionSchema),
                  i \in SectionOptions(InstallName, InstallSectionSchema),
                  m \in SectionOptions(MainName(kind), MainSchema(kind)) }

\* The setters of the section builders of a unit, as section and key.
Setters(kind) ==
  { <<UnitName, Description>>, <<InstallName, WantedBy>> }
    \cup { <<MainName(kind), MainSchema(kind).shape[i].name>> :
             i \in {j \in DOMAIN MainSchema(kind).shape : kind # "Container"} }

SetterValues(section, k, kind) ==
  IF k \in {PrivateTmp, Persistent}
    THEN { BoolV(TRUE), BoolV(FALSE), Undefined }
  ELSE { StrV(<<"a">>), StrV(<<"b">>), Undefined }

InitUnits ==
  /\ \E kind \in Kinds :
       /\ unit = [NoUnit EXCEPT !.kind = kind]
       /\ \/ pc = "unit" /\ iniData \in UnitDocuments(kind)
          \/ pc = "builder" /\ iniData = <<>>
  /\ data = <<>>
  /\ rawData = <<>>
  /\ lines = <<>>
  /\ idx = 0
  /\ currentSection = Null
  /\ line = <<>>
  /\ key = Undefined
  /\ value = Undefined
  /\ parsedValue = Undefined
  /\ error = NoError
  /\ warnings = 0
  /\ text = <<>>
  /\ reparsed = LoopStart
  /\ files = NoFiles
  /\ ctl = NoCtl
  /\ lastCall = NoCall

UnitUnchanged ==
  UNCHANGED <<files, ctl, lastCall, data, pc, rawData, lines, idx, currentSection, iniData, line, key, value,
              parsedValue, error, warnings, text, reparsed>>

\* new Unit(doc)
New ==
  /\ pc = "unit"
  /\ unit.stage = "none"
  /\ unit' = Construct(unit.kind, "constructor", iniData)
  /\ UnitUnchanged

\* Unit.fromObject(doc)
UnitFromObject ==
  /\ pc = "unit"
  /\ unit.stage = "none"
  /\ unit' = ConstructParsed(unit.kind, "fromObject", iniData)
  /\ UnitUnchanged

\* Unit.fromINI(INI.fromObject(doc))
UnitFromINI ==
  /\ pc = "unit"
  /\ unit.stage = "none"
  /\ \A i \in DOMAIN iniData : \A j \in DOMAIN iniData[i].val :
       AcceptedValue(iniData[i].val[j].val)
  /\ unit' = ConstructParsed(unit.kind, "fromINI", iniData)
  /\ UnitUnchanged

\* new Unit()
NewEmpty ==
  /\ pc = "builder"
  /\ unit.stage = "none"
  /\ unit' = Construct(unit.kind, "constructor", DefaultDocument(unit.kind))
  /\ UnitUnchanged

\* unit.getXSection().setKey(val): this.section.Key = val
Set ==
  /\ pc = "builder"
  /\ unit.stage = "built"
  /\ Len(unit.calls) < MaxCalls
  /\ \E setter \in Setters(unit.kind) :
       \E val \in SetterValues(setter[1], setter[2], unit.kind) :
         unit' = [unit EXCEPT
                    !.sections = Put(@, setter[1], Put(Get(@, setter[1]), setter[2], val)),
                    !.calls = Append(@, [section |-> setter[1], key |-> setter[2], val |-> val])]
  /\ UnitUnchanged

\* unit.toObject()
UnitToObject ==
  /\ unit.stage = "built"
  /\ LET result == ToObjectOf(unit.kind, unit.sections)
     IN  unit' = [unit EXCEPT !.stage = IF result.thrown THEN "objectThrown" ELSE "object",
                              !.object = result.object]
  /\ UnitUnchanged

NextUnits == New \/ UnitFromObject \/ UnitFromINI \/ NewEmpty \/ Set \/ UnitToObject

SpecUnits == InitUnits /\ [][NextUnits]_vars

\* Some section of the document holds a key its schema does not have.
HasUnrecognizedKey(kind, doc) ==
  \E i \in DOMAIN doc : \E j \in DOMAIN doc[i].val :
    doc[i].val[j].name \notin ShapeNames(SectionSchema(kind, doc[i].name))

(***************************************************************************)
(* C19: making a Service, a Timer or a Container, by the constructor, by   *)
(* fromObject or by fromINI, from a document in which some section holds   *)
(* a key that its schema does not have throws: no unit is made.            *)
(***************************************************************************)
C19_UnrecognizedKeysRejected ==
  (pc = "unit" /\ unit.stage # "none" /\ HasUnrecognizedKey(unit.kind, iniData))
    => unit.stage = "thrown"

\* The object holding the final value of each key the calls set: a key
\* stands where its last call put it.
RECURSIVE FinalObject(_, _)
FinalObject(calls, doc) ==
  IF calls = <<>> THEN doc
  ELSE LET c == Head(calls)
           section == IF Has(doc, c.section) THEN Get(doc, c.section) ELSE <<>>
           others == SelectSeq(section, LAMBDA e : e.name # c.key)
       IN  FinalObject(Tail(calls),
                       Put(doc, c.section, Append(others, [name |-> c.key, val |-> c.val])))

\* new Unit(doc).toObject()
DirectResult(kind, doc) ==
  IF Construct(kind, "constructor", doc).stage = "thrown"
    THEN [thrown |-> TRUE, object |-> <<>>]
  ELSE ToObjectOf(kind, Construct(kind, "constructor", doc).sections)

BuilderDone == pc = "builder" /\ unit.stage \in {"object", "objectThrown"}

BuilderResult == [thrown |-> unit.stage = "objectThrown", object |-> unit.object]

\* The calls that gave a key its final value, and that value is undefined.
FinalUndefined ==
  { i \in DOMAIN unit.calls :
      /\ unit.calls[i].val = Undefined
      /\ \A j \in DOMAIN unit.calls :
           (j > i /\ unit.calls[j].section = unit.calls[i].section)
             => unit.calls[j].key # unit.calls[i].key }

C22_SectionNamesNonEmpty ==
  Returned => \A i \in DOMAIN iniData : iniData[i].name # <<>>


(***************************************************************************)
(* Texts with a continuation at the end of the input, before whitespace    *)
(* or before a comment sign: `[S]`, then `K=a` and up to MaxTailLen        *)
(* characters out of a space, a backslash, a newline, `#` and `b`.  No     *)
(* carriage return: the two deletion passes are then one deletion.         *)
(***************************************************************************)
MaxTailLen == 4

TailChars == {" ", "\\", "\n", "#", "b"}

TailTexts ==
  { <<"[", "S", "]", "\n", "K", "=", "a">> \o t :
      t \in UNION { [1..n -> TailChars] : n \in 0..MaxTailLen } }

InitTails == Start(TailTexts)

SpecTails == InitTails /\ [][Next]_vars

(***************************************************************************)
(* C23: the continuations are deleted before anything else is done to the  *)
(* input: the lines walked are the non-blank, non-comment trimmed lines of *)
(* the input without its backslash-newline sequences, one at the very end  *)
(* of the input included, and the value stored for a key is read from such *)
(* a line, so it does not end with the backslash of a continuation.        *)
(* Fails: the input is trimmed first, which takes the newline of a         *)
(* continuation at the end and leaves its backslash.                       *)
(***************************************************************************)
C23_ContinuationFirst ==
  /\ pc # "start" => lines = Lines(Collapse(data))
  /\ LET logical == Lines(Collapse(data))
     IN  (Returned /\ Len(logical) = 2 /\ WellFormedKeyLine(logical[2])) =>
           Stored(<<"S">>, <<"K">>) = readValue(TokenOf(logical[2]))


(***************************************************************************)
(* Texts with more than one `=` in a line: in the value, around spaces,    *)
(* doubled, and with a second key-like part in front of the second `=`.    *)
(***************************************************************************)
EqualsLines ==
  { <<"[", "S", "]">>, <<"K", "=", "a">>, <<"K", "=", "a", "=", "b">>,
    <<"K", " ", "=", " ", "a", " ", "=", " ", "b">>, <<"J", "=", "K", "=", "a">>,
    <<"K", "=", "=">>, <<"=", "K", "=", "a">> }

InitEquals == Start(Texts(EqualsLines))

SpecEquals == InitEquals /\ [][Next]_vars

\* The place of the first `=` of a line that has one.
FirstEquals(ln) ==
  CHOOSE i \in DOMAIN ln : ln[i] = "=" /\ \A j \in 1..(i - 1) : ln[j] # "="

BeforeFirstEquals(ln) == Trim(SubSeq(ln, 1, FirstEquals(ln) - 1))

AfterFirstEquals(ln) == Trim(SubSeq(ln, FirstEquals(ln) + 1, Len(ln)))

HasEquals(ln) == \E i \in DOMAIN ln : ln[i] = "="

\* The loop has just read a line that is no header and holds a `=`.
AfterKeyLine ==
  /\ pc \in {"loop", "returned", "thrown"}
  /\ idx > 1
  /\ ~IsHeader(lines[idx - 1])
  /\ HasEquals(lines[idx - 1])

(***************************************************************************)
(* C24: a key line is split at its first `=` only: the key is the trimmed  *)
(* text before it and the value the whole trimmed text after it; a further *)
(* `=` stays in the value, which is stored under that key, and the keys of *)
(* a section are only such first parts of its lines.                       *)
(***************************************************************************)
C24_SplitAtFirstEquals ==
  /\ AfterKeyLine =>
       /\ key = StrV(BeforeFirstEquals(lines[idx - 1]))
       /\ value = StrV(AfterFirstEquals(lines[idx - 1]))
       /\ pc # "thrown" =>
            LET stored == Stored(currentSection.v, BeforeFirstEquals(lines[idx - 1]))
            IN  \/ stored = readValue(AfterFirstEquals(lines[idx - 1]))
                \/ /\ stored.tag = "array"
                   /\ stored.l[Len(stored.l)] = AfterFirstEquals(lines[idx - 1])
  /\ Returned =>
       \A i \in DOMAIN iniData : \A j \in DOMAIN iniData[i].val :
         \E h \in DOMAIN lines :
           /\ ~IsHeader(lines[h])
           /\ HasEquals(lines[h])
           /\ iniData[i].val[j].name = BeforeFirstEquals(lines[h])

C24_Witness ==
  /\ Returned
  /\ Has(iniData, <<"S">>)
  /\ Stored(<<"S">>, <<"K">>) = ListV(<< <<"a", " ", "=", " ", "b">>, <<"=">> >>)
  /\ Stored(<<"S">>, <<"J">>) = StrV(<<"K", "=", "a">>)
  /\ Names(Get(iniData, <<"S">>)) = << <<"K">>, <<"J">> >>


(***************************************************************************)
(* INI.fromObject on any value.  An input is a value of the runtime: an    *)
(* object holds its own properties in `l`, an array its elements.  The     *)
(* inputs are the objects of up to two properties S and T, S an object of  *)
(* up to two keys K and J or no object at all, T one of a few such values, *)
(* and a few values that are no objects.                                   *)
(***************************************************************************)
ObjV(properties) == [Undefined EXCEPT !.tag = "object", !.l = properties]

ArrV(elements) == [Undefined EXCEPT !.tag = "array", !.l = elements]

\* typeof v.
TypeOf(v) == IF v.tag \in {"object", "null", "array"} THEN "object" ELSE v.tag

\* Lines 51 and 59: typeof v === "object", v !== null, !Array.isArray(v).
IsPlainObject(v) == TypeOf(v) = "object" /\ v.tag # "null" /\ v.tag # "array"

\* AcceptedInput letting every array through, whatever its elements.
AcceptedInputAnyArray(sectionValue) ==
  \/ TypeOf(sectionValue) \in {"string", "undefined", "number", "boolean"}
  \/ sectionValue.tag = "array"

\* Lines 66-80: the values of a key that fromObject passes over.
AcceptedInput(sectionValue) ==
  \/ TypeOf(sectionValue) \in {"string", "undefined", "number", "boolean"}
  \/ /\ sectionValue.tag = "array"
     /\ \A i \in DOMAIN sectionValue.l : TypeOf(sectionValue.l[i]) = "string"

\* Lines 64-84: the keys of one section, in order.
RECURSIVE CheckKeys(_, _)
CheckKeys(sectionData, j) ==
  IF j > Len(sectionData) THEN NoError
  ELSE IF AcceptedInput(sectionData[j].val) THEN CheckKeys(sectionData, j + 1)
  ELSE Error("Invalid data for key: ", sectionData[j].name)

\* Lines 56-85: the sections, in order.
RECURSIVE CheckSections(_, _)
CheckSections(record, i) ==
  IF i > Len(record) THEN NoError
  ELSE IF ~IsPlainObject(record[i].val) THEN Error("Invalid section data", record[i].name)
  ELSE IF CheckKeys(record[i].val.l, 1).thrown THEN CheckKeys(record[i].val.l, 1)
  ELSE CheckSections(record, i + 1)

\* Lines 51-53 and the loops: what fromObject throws for an input, if anything.
CheckData(d) ==
  IF ~IsPlainObject(d) THEN Error("", <<>>) ELSE CheckSections(d.l, 1)

\* The document an accepted input is, as the data of the INI, and back.
DocumentValue(v) ==
  IF v.tag = "array" THEN ListV([i \in DOMAIN v.l |-> v.l[i].s]) ELSE v

DocumentOf(d) ==
  [i \in DOMAIN d.l |->
     [name |-> d.l[i].name,
      val |-> [j \in DOMAIN d.l[i].val.l |->
                 [name |-> d.l[i].val.l[j].name, val |-> DocumentValue(d.l[i].val.l[j].val)]]]]

InputValue(v) ==
  IF v.tag = "array" THEN ArrV([i \in DOMAIN v.l |-> StrV(v.l[i])]) ELSE v

InputOf(doc) ==
  ObjV([i \in DOMAIN doc |->
          [name |-> doc[i].name,
           val |-> ObjV([j \in DOMAIN doc[i].val |->
                           [name |-> doc[i].val[j].name, val |-> InputValue(doc[i].val[j].val)]])]])

InputKeyValues ==
  { Undefined, NullValue, BoolV(TRUE), NumV(Finite(FALSE, <<"1">>, 1)), StrV(<<"a">>), StrV(<<>>),
    ArrV(<<StrV(<<"a">>)>>), ArrV(<<StrV(<<"a">>), NumV(Finite(FALSE, <<"1">>, 1))>>) }

InputSections ==
  { ObjV(o) : o \in ObjectsOver(ObjectKeyNames, InputKeyValues) }
    \cup { NullValue, ArrV(<<>>), StrV(<<"a">>) }

\* What a second property T holds next to S.
InputSecondSections ==
  { ObjV(<<>>), ObjV(<<[name |-> <<"K">>, val |-> StrV(<<"a">>)]>>),
    ObjV(<<[name |-> <<"K">>, val |-> NullValue]>>), NullValue, ArrV(<<>>) }

Inputs ==
  { ObjV(<<>>), Undefined, NullValue, ArrV(<<>>), StrV(<<"a">>), NumV(Finite(FALSE, <<"1">>, 1)) }
    \cup { ObjV(<<[name |-> <<"S">>, val |-> s]>>) : s \in InputSections }
    \cup { ObjV(<<[name |-> <<"T">>, val |-> t]>>) : t \in InputSecondSections }
    \cup { ObjV(<<[name |-> <<"S">>, val |-> s], [name |-> <<"T">>, val |-> t]>>) :
              s \in InputSections, t \in InputSecondSections }
    \cup { ObjV(<<[name |-> <<"T">>, val |-> t], [name |-> <<"S">>, val |-> s]>>) :
              s \in InputSections, t \in InputSecondSections }

InitInputs ==
  /\ data \in Inputs
  /\ pc = "input"
  /\ unit = NoUnit
  /\ rawData = <<>>
  /\ lines = <<>>
  /\ idx = 0
  /\ currentSection = Null
  /\ iniData = <<>>
  /\ line = <<>>
  /\ key = Undefined
  /\ value = Undefined
  /\ parsedValue = Undefined
  /\ error = NoError
  /\ warnings = 0
  /\ text = <<>>
  /\ reparsed = LoopStart
  /\ files = NoFiles
  /\ ctl = NoCtl
  /\ lastCall = NoCall

\* INI.fromObject(data): throws, or returns the INI whose data is the input.
FromObjectInput ==
  /\ pc = "input"
  /\ error' = CheckData(data)
  /\ IF CheckData(data).thrown
       THEN pc' = "thrown" /\ UNCHANGED iniData
       ELSE pc' = "returned" /\ iniData' = DocumentOf(data)
  /\ UNCHANGED <<files, ctl, lastCall, unit, data, rawData, lines, idx, currentSection, line, key, value,
                 parsedValue, warnings, text, reparsed>>

NextInputs == FromObjectInput \/ ToStringCall \/ Reparse

SpecInputs == InitInputs /\ [][NextInputs]_vars

\* What the claim lets in.
AcceptableKeyValue(v) ==
  \/ v.tag \in {"string", "number", "boolean", "undefined"}
  \/ v.tag = "array" /\ \A i \in DOMAIN v.l : v.l[i].tag = "string"

AcceptableSection(v) ==
  v.tag = "object" /\ \A j \in DOMAIN v.l : AcceptableKeyValue(v.l[j].val)

Acceptable(d) ==
  d.tag = "object" /\ \A i \in DOMAIN d.l : AcceptableSection(d.l[i].val)

(***************************************************************************)
(* C25: INI.fromObject returns exactly for an object (not null, not an     *)
(* array) whose sections are such objects and whose key values are each a  *)
(* string, a number, a boolean, undefined or an array of strings; it       *)
(* throws for every other input; and the data of the INI returned, which   *)
(* toObject() hands out, is the input.                                     *)
(***************************************************************************)
C25_FromObjectAccepts ==
  pc # "input" =>
    /\ (pc = "thrown") = ~Acceptable(data)
    /\ (pc = "thrown") = error.thrown
    /\ pc # "thrown" => InputOf(iniData) = data

C25_Witness ==
  /\ pc = "returned"
  /\ data = ObjV(<< [name |-> <<"S">>,
                     val |-> ObjV(<< [name |-> <<"K">>, val |-> ArrV(<<StrV(<<"a">>)>>)],
                                     [name |-> <<"J">>, val |-> Undefined] >>)],
                    [name |-> <<"T">>, val |-> ObjV(<<>>)] >>)
  /\ iniData = << [name |-> <<"S">>,
                   val |-> << [name |-> <<"K">>, val |-> ListV(<< <<"a">> >>)],
                              [name |-> <<"J">>, val |-> Undefined] >>],
                  [name |-> <<"T">>, val |-> <<>>] >>


(***************************************************************************)
(* C27: for every document INI.fromObject accepts, the text INI.toString   *)
(* writes for it is parsed by INI.fromString without a throw.  Fails: the  *)
(* object without sections is written as the empty text, and a key whose   *)
(* value is the empty string as `K=`; the parser refuses both.             *)
(***************************************************************************)
C27_OutputParseable ==
  pc = "reparsed" => ~reparsed.error.thrown


\* A text holding one section S with the one key K.
OneKey == Has(iniData, <<"S">>) /\ Has(Get(iniData, <<"S">>), <<"K">>)

(***************************************************************************)
(* C26: for a single value the parser stored (a boolean, a finite number   *)
(* or a string), the text INI.toString writes after `K=` is coerced back   *)
(* to that value, with the same tag.  Fails: the number 1 is written as    *)
(* `1` and the number 0 as `0`, which are coerced to booleans.             *)
(***************************************************************************)
C26_ValueRoundTrip ==
  (pc \in {"serialized", "reparsed"} /\ OneKey) =>
    /\ OutValues(OutLines, <<"S">>, <<"K">>) # <<>>
    /\ readValue(OutValues(OutLines, <<"S">>, <<"K">>)[1]) = Stored(<<"S">>, <<"K">>)


(***************************************************************************)
(* The typed round trip: a unit made from a document, its toObject(), its  *)
(* toINIString(), INI.fromString on that text, and the unit fromINI makes  *)
(* of the result, with its toObject().  The documents hold strings that    *)
(* read as a number or a boolean next to plain ones.                       *)
(***************************************************************************)
\* The name toINIString gives the unit's own section.
INIMainName(kind) == IF kind = "Container" THEN ContainerName ELSE ServiceName

\* unit.toINIString(): the sections' toObject() under Unit, Install and the
\* name of the unit's own section, then INI.fromObject(...).toString().
ToINIStringOf(kind, sections) ==
  LET result == ToObjectOf(kind, sections)
  IN  [thrown |-> result.thrown,
       text |-> toString([i \in DOMAIN result.object |->
                            [name |-> IF result.object[i].name = MainName(kind)
                                        THEN INIMainName(kind) ELSE result.object[i].name,
                             val |-> result.object[i].val]])]

\* Unit.fromINI(ini).toObject() for the INI that INI.fromString returned.
BackFrom(kind, ini) ==
  IF ini.error.thrown \/ ConstructParsed(kind, "fromINI", ini.iniData).stage = "thrown"
    THEN [stage |-> "thrown", object |-> <<>>]
  ELSE LET result == ToObjectOf(kind, ConstructParsed(kind, "fromINI", ini.iniData).sections)
       IN  [stage |-> IF result.thrown THEN "objectThrown" ELSE "object",
            object |-> result.object]

TypedStrings == { StrV(<<"a">>), StrV(<<"1">>), StrV(<<"5">>), StrV(<<"n", "o">>) }

\* The sections named `name` with the keys of `fields`, each absent or with
\* one of its values.
RECURSIVE TypedSections(_)
TypedSections(fields) ==
  IF fields = <<>> THEN { <<>> }
  ELSE { h \o t : h \in { <<>> } \cup { <<[name |-> Head(fields).name, val |-> v]>> :
                                           v \in Head(fields).values },
                  t \in TypedSections(Tail(fields)) }

TypedMainFields(kind) ==
  CASE kind = "Service" -> << [name |-> ExecStart, values |-> { StrV(<<"a">>), StrV(<<"1">>) }],
                              [name |-> PrivateTmp, values |-> { BoolV(TRUE), BoolV(FALSE) }] >>
    [] kind = "Timer" -> << [name |-> OnCalendar, values |-> { StrV(<<"a">>), StrV(<<"1">>) }],
                            [name |-> Persistent, values |-> { BoolV(TRUE), BoolV(FALSE) }] >>
    [] OTHER -> << [name |-> Image, values |-> { StrV(<<"a">>), StrV(<<"1">>) }] >>

TypedDocuments(kind) ==
  { << [name |-> UnitName, val |-> u] >> \o i \o << [name |-> MainName(kind), val |-> m] >> :
      u \in TypedSections(<< [name |-> Description, values |-> TypedStrings] >>),
      i \in { <<>> } \cup
            { << [name |-> InstallName, val |-> w] >> :
                w \in TypedSections(<< [name |-> WantedBy,
                                        values |-> { StrV(<<"a">>),
                                                     ListV(<< <<"a">>, <<"b">> >>) }] >>) },
      m \in TypedSections(TypedMainFields(kind)) }

InitTyped ==
  /\ \E kind \in Kinds :
       /\ unit = [NoUnit EXCEPT !.kind = kind]
       /\ iniData \in TypedDocuments(kind)
  /\ pc = "unit"
  /\ data = <<>>
  /\ rawData = <<>>
  /\ lines = <<>>
  /\ idx = 0
  /\ currentSection = Null
  /\ line = <<>>
  /\ key = Undefined
  /\ value = Undefined
  /\ parsedValue = Undefined
  /\ error = NoError
  /\ warnings = 0
  /\ text = <<>>
  /\ reparsed = LoopStart
  /\ files = NoFiles
  /\ ctl = NoCtl
  /\ lastCall = NoCall

\* unit.toINIString(), after unit.toObject()
UnitToINIString ==
  /\ pc = "unit"
  /\ unit.stage = "object"
  /\ ~ToINIStringOf(unit.kind, unit.sections).thrown
  /\ text' = ToINIStringOf(unit.kind, unit.sections).text
  /\ pc' = "written"
  /\ UNCHANGED <<files, ctl, lastCall, unit, data, rawData, lines, idx, currentSection, iniData, line, key, value,
                 parsedValue, error, warnings, reparsed>>

\* INI.fromString on the text toINIString wrote
UnitReread ==
  /\ pc = "written"
  /\ reparsed' = fromString(text)
  /\ pc' = "reread"
  /\ UNCHANGED <<files, ctl, lastCall, unit, data, rawData, lines, idx, currentSection, iniData, line, key, value,
                 parsedValue, error, warnings, text>>

\* Unit.fromINI on the INI read, and toObject() on the unit it makes
UnitBack ==
  /\ pc = "reread"
  /\ unit' = [unit EXCEPT !.back = BackFrom(unit.kind, reparsed)]
  /\ pc' = "back"
  /\ UNCHANGED <<files, ctl, lastCall, data, rawData, lines, idx, currentSection, iniData, line, key, value,
                 parsedValue, error, warnings, text, reparsed>>

NextTyped == New \/ UnitToObject \/ UnitToINIString \/ UnitReread \/ UnitBack

SpecTyped == InitTyped /\ [][NextTyped]_vars

(***************************************************************************)
(* C28: for a Service or a Container u that passed its schema, fromINI on  *)
(* INI.fromString(u.toINIString()) makes a unit, and its toObject() is     *)
(* u.toObject(), whatever strings and booleans u holds.  Fails: a string   *)
(* that reads as a number or a boolean is written bare and comes back with *)
(* that type, which the schema of the field refuses.                       *)
(***************************************************************************)
C28_TypedRoundTrip ==
  (pc = "back" /\ unit.kind \in {"Service", "Container"}) =>
    /\ unit.back.stage = "object"
    /\ unit.back.object = unit.object

(***************************************************************************)
(* C29: Timer.toINIString() writes the sections Timer.toObject() returns,  *)
(* under the same names Unit, Install and Timer, and Timer.fromINI on the  *)
(* text read back makes a timer equal to the first.  Fails: the timer's    *)
(* own section is written under the name Service.                          *)
(***************************************************************************)
C29_TimerSections ==
  unit.kind = "Timer" =>
    /\ pc \in {"written", "reread", "back"} => OutHeaderNames = Names(unit.object)
    /\ pc = "back" =>
         /\ unit.back.stage = "object"
         /\ unit.back.object = unit.object


(***************************************************************************)
(* The ctl package: write(name, unit) and the class Ctl over a file system *)
(* of two directories.  The unit is the one the typed layer made.          *)
(***************************************************************************)
MaxWrites == 3

\* (unit.constructor as typeof Service).getType()
GetType(kind) ==
  CASE kind = "Service" -> "service"
    [] kind = "Timer" -> "timer"
    [] OTHER -> "container"

GetPath(type) == IF type # "container" THEN SystemDir ELSE ContainersDir

\* readFileSync, INI.fromString and Service.fromINI or Timer.fromINI in
\* getUnit, for the file in /etc/systemd/system whatever the type.
ReadBack(fs, kind) == BackFrom(kind, fromString(fs[SystemDir].content))

\* getUnit(name, type), `back` being what reading the file gives: no file
\* is undefined, and a file of a type other than service and timer throws.
GetUnitOf(fs, kind, back) ==
  IF ~fs[SystemDir].exists THEN [thrown |-> FALSE, current |-> NoCurrent]
  ELSE IF GetType(kind) \notin {"service", "timer"} \/ back.stage # "object"
    THEN [thrown |-> TRUE, current |-> NoCurrent]
  ELSE [thrown |-> FALSE, current |-> [exists |-> TRUE, object |-> back.object]]

GetUnit(fs, kind) == GetUnitOf(fs, kind, ReadBack(fs, kind))

\* JSON.stringify(unit.toObject()): a key whose value is undefined is left
\* out; the order of the keys and the type of every value are kept.
JSONStringify(object) ==
  [i \in DOMAIN object |->
     [name |-> object[i].name,
      val |-> SelectSeq(object[i].val, LAMBDA kv : kv.val # Undefined)]]

\* unit.equals(current): Container reads current.toObject() without a
\* test for undefined; the declaration in AbstractUnit takes an optional
\* unit, and compares the two toObject() as JSON.
Equals(kind, object, current) ==
  IF ~current.exists
    THEN [thrown |-> kind = "Container", equal |-> FALSE]
  ELSE [thrown |-> FALSE, equal |-> JSONStringify(object) = JSONStringify(current.object)]

\* The body write(name, unit) and Ctl.write() share: compare, write, answer.
WriteWith(fs, u, current) ==
  LET eq == Equals(u.kind, u.object, current)
      out == ToINIStringOf(u.kind, u.sections)
  IN  IF eq.thrown \/ (~eq.equal /\ out.thrown)
        THEN [returned |-> "thrown", wrote |-> FALSE, files |-> fs]
      ELSE IF eq.equal
        THEN [returned |-> "unchanged", wrote |-> FALSE, files |-> fs]
      ELSE [returned |-> IF current.exists THEN "updated" ELSE "created",
            wrote |-> TRUE,
            files |-> [fs EXCEPT ![GetPath(GetType(u.kind))] = FileOf(out.text)]]

CtlMainFields(kind) ==
  CASE kind = "Service" -> << [name |-> ExecStart, values |-> { StrV(<<"a">>), StrV(<<"b">>) }],
                              [name |-> PrivateTmp, values |-> { BoolV(TRUE), BoolV(FALSE) }] >>
    [] kind = "Timer" -> << [name |-> OnCalendar, values |-> { StrV(<<"a">>), StrV(<<"b">>) }],
                            [name |-> Persistent, values |-> { BoolV(TRUE), BoolV(FALSE) }] >>
    [] OTHER -> << [name |-> Image, values |-> { StrV(<<"a">>), StrV(<<"b">>) }] >>

\* The documents the units written come from.
CtlDocuments(kind) ==
  { << [name |-> UnitName, val |-> <<>>], [name |-> MainName(kind), val |-> m] >> :
      m \in TypedSections(CtlMainFields(kind)) }

\* What a file may hold before the first call: nothing, the text an earlier
\* write left for a unit of the kind, or a text of another origin.
CtlFileContents(kind) ==
  { NoFile, FileOf(<<"[", "U", "n", "i", "t", "]">>) }
    \cup { FileOf(ToINIStringOf(kind, Construct(kind, "constructor", d).sections).text) :
             d \in { doc \in CtlDocuments(kind) :
                       Construct(kind, "constructor", doc).stage = "built" } }

CtlFiles(kind) ==
  { [d \in Dirs |-> IF d = SystemDir THEN s ELSE c] :
      s \in CtlFileContents(kind),
      c \in IF kind = "Container" THEN CtlFileContents(kind) ELSE { NoFile } }

InitCtl ==
  /\ \E kind \in Kinds :
       /\ unit = [NoUnit EXCEPT !.kind = kind]
       /\ iniData \in CtlDocuments(kind)
       /\ files \in CtlFiles(kind)
  /\ ctl = NoCtl
  /\ lastCall = NoCall
  /\ pc = "unit"
  /\ data = <<>>
  /\ rawData = <<>>
  /\ lines = <<>>
  /\ idx = 0
  /\ currentSection = Null
  /\ line = <<>>
  /\ key = Undefined
  /\ value = Undefined
  /\ parsedValue = Undefined
  /\ error = NoError
  /\ warnings = 0
  /\ text = <<>>
  /\ reparsed = LoopStart

CtlUnchanged ==
  UNCHANGED <<unit, data, pc, rawData, lines, idx, currentSection, iniData, line, key, value,
              parsedValue, error, warnings, text, reparsed>>

\* write(name, unit)
Write ==
  /\ unit.stage = "object"
  /\ lastCall.number < MaxWrites
  /\ \E back \in { ReadBack(files, unit.kind) } :
     \E got \in { GetUnitOf(files, unit.kind, back) } :
       \E out \in { IF got.thrown
                        THEN [returned |-> "thrown", wrote |-> FALSE, files |-> files]
                      ELSE WriteWith(files, unit, got.current) } :
         /\ files' = out.files
         /\ lastCall' = [call |-> "write", returned |-> out.returned, before |-> files,
                         number |-> lastCall.number + 1]
  /\ UNCHANGED ctl
  /\ CtlUnchanged

\* new Ctl(name, unit): this.current is read from the file system here
CtlNew ==
  /\ unit.stage = "object"
  /\ ctl.stage = "none"
  /\ \E back \in { ReadBack(files, unit.kind) } :
     \E got \in { GetUnitOf(files, unit.kind, back) } :
       ctl' = [ctl EXCEPT !.stage = IF got.thrown THEN "thrown" ELSE "made",
                          !.current = got.current]
  /\ UNCHANGED <<files, lastCall>>
  /\ CtlUnchanged

\* ctl.write(), on a Ctl that was given a unit
CtlWrite ==
  /\ ctl.stage = "made"
  /\ lastCall.number < MaxWrites
  /\ LET out == WriteWith(files, unit, ctl.current)
     IN  /\ files' = out.files
         /\ lastCall' = [call |-> "Ctl.write", returned |-> out.returned, before |-> files,
                         number |-> lastCall.number + 1]
         /\ ctl' = [ctl EXCEPT !.returned =
                      Append(@, [returned |-> out.returned, wrote |-> out.wrote])]
  /\ CtlUnchanged

NextCtl == New \/ UnitToObject \/ Write \/ CtlNew \/ CtlWrite

SpecCtl == InitCtl /\ [][NextCtl]_vars

\* The file at the unit's path holds a unit equal to the unit.
HoldsEqual(fs, u) ==
  LET file == fs[GetPath(GetType(u.kind))]
      back == BackFrom(u.kind, fromString(file.content))
  IN  /\ file.exists
      /\ back.stage = "object"
      /\ JSONStringify(back.object) = JSONStringify(u.object)

(***************************************************************************)
(* C21: write(name, unit) and Ctl.write(), for a unit of any type: when    *)
(* the file at the unit's path holds a unit equal to it the call returns   *)
(* "unchanged" and writes nothing; otherwise it writes unit.toINIString()  *)
(* to that path and returns "updated" when a file was there, "created"     *)
(* when none was.  Fails: a container's file is looked up in another       *)
(* directory than the one it is written to.                                *)
(***************************************************************************)
C21_WriteOutcome ==
  lastCall.call # "none" =>
    LET path == GetPath(GetType(unit.kind))
    IN  IF HoldsEqual(lastCall.before, unit)
          THEN lastCall.returned = "unchanged" /\ files = lastCall.before
        ELSE /\ files = [lastCall.before EXCEPT
                           ![path] = FileOf(ToINIStringOf(unit.kind, unit.sections).text)]
             /\ lastCall.returned = IF lastCall.before[path].exists THEN "updated"
                                    ELSE "created"

(***************************************************************************)
(* C30: on one Ctl, after a write() that wrote the file, the next write()  *)
(* returns "unchanged" and does not write.  Fails: this.current is read in *)
(* the constructor only.                                                   *)
(***************************************************************************)
C30_WriteIdempotent ==
  \A i \in 1..(Len(ctl.returned) - 1) :
    ctl.returned[i].wrote =>
      /\ ctl.returned[i + 1].returned = "unchanged"
      /\ ~ctl.returned[i + 1].wrote

====
